---- MODULE Spec2Model ----
(***************************************************************************)
(* video-transcriber: the server job lifecycle.                            *)
(*                                                                         *)
(* The model follows src/transcriber/main.py (the HTTP handlers and the    *)
(* background task process_transcription_task), services/transcription.py  *)
(* (TranscriptionService.process_transcription), services/whisper.py       *)
(* (WhisperEngine.transcribe), services/audio.py, services/youtube.py and  *)
(* database.py (get_session: commit on normal exit, rollback and re-raise  *)
(* on an exception).                                                       *)
(*                                                                         *)
(* Two stores hold a job: the registry (the database table, of which other *)
(* requests see the COMMITTED rows only) and progress_store (the dict the  *)
(* event stream polls).  The row object a pipeline run holds in its open   *)
(* session is the run's own state (obj): its changes reach the registry at *)
(* commit and are discarded by rollback.                                   *)
(*                                                                         *)
(* One action is one stretch of code between two suspension points (await) *)
(* or a finer cut of it; an operation that can raise has one outcome per   *)
(* way it ends.                                                            *)
(***************************************************************************)
EXTENDS Integers, Sequences, FiniteSets, TLC

\* ------------------------------------------------------------------ bounds
\* Number of segments the transcription collaborator yields at most.
MaxSegs == 2

\* Number of job ids (uuid4 values, never reused) the registry can hold.
MaxJobs == 3
\* limit of list_transcriptions when the caller gives none (transcription.py:180).
DEFAULT_LIMIT == 50

Jobs == 1..MaxJobs
\* The ids that Spec admits: one job with every outcome of every step.
Solo == {1}
\* The ids that SpecTwo admits: two jobs side by side, with fewer outcomes.
Pair == {1, 2}
\* created_at values of stored rows (datetime.utcnow at the insert); two rows
\* can carry the same one.
Times == {1, 2}
\* limit arguments of list_transcriptions.
Limits == {1, 2, DEFAULT_LIMIT}

\* Video ids that remote URLs of the model name (stems of files in temp/).
VideoIds == {101}
\* Suffixes of uploaded files: one supported by AudioExtractor, one not.
UploadExts == {"mp4", "txt"}
\* Suffix of the file yt-dlp leaves in temp/ before download() converts it.
RawExts == {"m4a", "wav"}
\* Segment end times the collaborator may report (0.25 s and 0.75 s), in the
\* unit of WhisperDurations: eighths of a second.
SegEnds == {2, 6}
\* info.duration as faster-whisper reports it (0: unknown).
WhisperDurations == {0, 4}
\* Results of ffprobe through get_duration (0.0 is its fallback).
ProbedDurations == {0, 4}

\* ------------------------------------------------------------------ values
None == "None"

\* models.py: TranscriptionStatus
PENDING == "pending"
PROCESSING == "processing"
COMPLETED == "completed"
FAILED == "failed"
\* the extra status string main.py publishes during the download
DOWNLOADING == "downloading"

Terminal == {COMPLETED, FAILED}

NoRow == [absent |-> TRUE]
NoSnap == [absent |-> TRUE]
NoPath == [absent |-> TRUE]
NoUrl == [absent |-> TRUE]

\* Whether a row, a snapshot or a path is there (not None, key in the dict).
Present(x) == "absent" \notin DOMAIN x

\* A file path: directory (uploads/ or temp/ under data_dir), stem, suffix.
Path(d, s, e) == [dir |-> d, stem |-> s, ext |-> e]

\* main.py:121  upload_path = settings.uploads_dir / f"{file_id}_{source_name}"
\* (file_id is a fresh uuid4: the stem is the job's own).
UploadPath(j, e) == Path("uploads", j, e)

\* audio.py:31  SUPPORTED_FORMATS
SUPPORTED_FORMATS == {"mp4", "mkv", "avi", "mov", "webm", "wav", "mp3", "m4a"}

\* audio.py:37-39  is_supported
is_supported(p) == p.ext \in SUPPORTED_FORMATS

\* audio.py:61-63  default output path of extract_audio: temp_dir / f"{stem}.wav"
ExtractOutput(p) == Path("temp", p.stem, "wav")

\* youtube.py:87,122  the path download() returns: output_dir / f"{video_id}.wav"
DownloadOutput(v) == Path("temp", v, "wav")

\* A remote locator: whether it matches a YOUTUBE_PATTERNS entry, and the id captured.
Urls == [valid : {TRUE}, vid : VideoIds] \cup {[valid |-> FALSE, vid |-> 0]}

\* A download() without the check of youtube.py:83.
AcceptsAnyLocator(u) == TRUE

\* youtube.py:30-32  is_youtube_url
is_youtube_url(u) == u.valid

\* youtube.py:34-40  extract_video_id
extract_video_id(u) == u.vid

\* ------------------------------------------------------------------ text
\* Strings that the formatter builds are sequences of one-character strings.
RECURSIVE JoinWith(_, _)
JoinWith(sep, parts) ==
    IF parts = <<>> THEN <<>>
    ELSE IF Len(parts) = 1 THEN parts[1]
    ELSE parts[1] \o sep \o JoinWith(sep, Tail(parts))

\* formatter.py:98-108  to_plain_text: " ".join(segment.text for segment in segments)
to_plain_text(segs) == JoinWith(<<" ">>, [i \in 1..Len(segs) |-> segs[i].text])

\* models.py:86-97  Segment
Segment(s, e, t) == [start |-> s, end |-> e, text |-> t]

\* The text of every segment of the model.
SegText == <<"a">>

\* ------------------------------------------------------------------ progress
Min(a, b) == IF a < b THEN a ELSE b

\* transcription.py:253  10 + int(p * 0.85); for integers p in 0..100 the float
\* product truncates to (p * 85) \div 100.
ServerScale(p) == 10 + ((p * 85) \div 100)

\* whisper.py:117  int((segment.end / duration) * 100); exact in floats for the
\* SegEnds and WhisperDurations of the model.
LocalProgress(end, duration) == (end * 100) \div duration

\* ------------------------------------------------------------------ state
VARIABLES
    db,              \* registry: job id -> committed row, or NoRow
    progress_store,  \* main.py:31: job id -> published snapshot, or NoSnap
    files,           \* the paths that exist under data_dir
    nextId,          \* the next job id create_transcription hands out
    pc,              \* job id -> position of its create request / background task
    source_type,     \* task argument
    source_path,     \* task local: the upload path, later the downloaded path
    youtube_url,     \* task argument
    title,           \* task local: the title download() returned
    svc,             \* task local: TRUE once `service` is bound (main.py:176)
    exc,             \* the exception in flight or caught (its str()), or None
    escaping,        \* TRUE when an exception is leaving the task through finally
    obj,             \* the row object of process_transcription's open session
    audio_path,      \* process_transcription local
    segments,        \* WhisperEngine.transcribe local: the segments so far
    last_progress,   \* WhisperEngine.transcribe local
    wduration,       \* WhisperEngine.transcribe local: info.duration
    reported,        \* history: the last progress reported with a non-failed status, or -1
    sub_pc,          \* job id -> its event stream: "off", "on" (polling) or "done"
    sub_last,        \* event_generator local: last_progress
    events,          \* history: the events the stream has emitted, in order
    deleted,         \* history: job id -> a delete of the id has returned success
    response,        \* the response of the request the last step completed, or NoResponse
    args,            \* a direct call of the package: the function and its arguments
    text,            \* transcribe_file local
    outputs,         \* transcribe_file: the artifacts written, path and content
    calls,           \* history: the values WhisperEngine.transcribe passed to its callback
    progress_calls,  \* history: the values transcribe_file passed to progress_callback
    llm_calls,       \* history: the outcome of each call of LLMFormatter.format_text
    call_result      \* what the direct call returned or raised, or NoResult

taskVars == <<pc, source_type, source_path, youtube_url, title, svc, exc, escaping>>
procVars == <<obj, audio_path, segments, last_progress, wduration>>
pubVars == <<progress_store, reported>>
subVars == <<sub_pc, sub_last, events>>
callVars == <<args, text, outputs, calls, progress_calls, llm_calls, call_result>>
stateVars == <<db, progress_store, files, nextId, pc, source_type, source_path,
               youtube_url, title, svc, exc, escaping, obj, audio_path, segments,
               last_progress, wduration, reported, sub_pc, sub_last, events, deleted,
               args, text, outputs, calls, progress_calls, llm_calls, call_result>>
vars == <<stateVars, response>>

\* A transcription that is called on the event loop itself.
RunsOnLoop == FALSE

\* transcription.py:257-266  whisper.transcribe is handed to
\* loop.run_in_executor and awaited: it runs on a worker thread.
RunsInExecutor == TRUE

\* The event loop can run a request handler or a generator: no transcription
\* call is in progress on the loop itself. Downloading and audio extraction are
\* synchronous calls and are single steps of the model.
LoopFree == \A j \in Jobs : pc[j] = "whisper" => RunsInExecutor

\* A submission that stores the row as already running.
NewRowStarted(st, sn, created) ==
    [source_type |-> st, source_name |-> sn, created_at |-> created,
     duration_seconds |-> 0, text |-> <<>>, segments |-> <<>>,
     status |-> PROCESSING, error_message |-> None, progress |-> 5]

\* models.py:30-56  a Transcription row with the column defaults
NewRow(st, sn, created) ==
    [source_type |-> st, source_name |-> sn, created_at |-> created,
     duration_seconds |-> 0, text |-> <<>>, segments |-> <<>>,
     status |-> PENDING, error_message |-> None, progress |-> 0]

\* What a request handler answers: the status code and what the body holds.
NoBody == [absent |-> TRUE]
NoResponse == [op |-> "none"]
Response(op, j, code, body) == [op |-> op, id |-> j, code |-> code, body |-> body]

\* The dict values main.py stores in progress_store; err = None: no "error" key.
Snap(p, s, err) == [progress |-> p, status |-> s, error |-> err]

\* No function of the package is being called directly (the server runs).
NoArgs == [fn |-> "none"]
NoResult == [kind |-> "none"]
NoDirectCall ==
    /\ args = NoArgs
    /\ text = <<>>
    /\ outputs = {}
    /\ calls = <<>>
    /\ progress_calls = <<>>
    /\ llm_calls = <<>>
    /\ call_result = NoResult

Init ==
    /\ db = [j \in Jobs |-> NoRow]
    /\ progress_store = [j \in Jobs |-> NoSnap]
    /\ files = {}
    /\ nextId = 1
    /\ pc = [j \in Jobs |-> "none"]
    /\ source_type = [j \in Jobs |-> None]
    /\ source_path = [j \in Jobs |-> NoPath]
    /\ youtube_url = [j \in Jobs |-> NoUrl]
    /\ title = [j \in Jobs |-> None]
    /\ svc = [j \in Jobs |-> FALSE]
    /\ exc = [j \in Jobs |-> None]
    /\ escaping = [j \in Jobs |-> FALSE]
    /\ obj = [j \in Jobs |-> NoRow]
    /\ audio_path = [j \in Jobs |-> NoPath]
    /\ segments = [j \in Jobs |-> <<>>]
    /\ last_progress = [j \in Jobs |-> 0]
    /\ wduration = [j \in Jobs |-> 0]
    /\ reported = [j \in Jobs |-> -1]
    /\ sub_pc = [j \in Jobs |-> "off"]
    /\ sub_last = [j \in Jobs |-> -1]
    /\ events = [j \in Jobs |-> <<>>]
    /\ deleted = [j \in Jobs |-> FALSE]
    /\ response = NoResponse
    /\ NoDirectCall

\* ------------------------------------------------------------------ helpers
\* main.py:178-179 update_progress, and every other write of progress_store[j].
Publish(j, p, s, err) ==
    /\ progress_store' = [progress_store EXCEPT ![j] = Snap(p, s, err)]
    /\ reported' = IF s = FAILED THEN reported ELSE [reported EXCEPT ![j] = p]

\* A get_session that commits on every exit, also when the block raised.
get_session_exit_commits(raised, row, o) == o

\* database.py:32-41 get_session: what the registry holds for a row once the
\* session block is left: the session's row on a commit, the row as it was on
\* an exception (rollback).
get_session_exit(raised, row, o) == IF raised THEN row ELSE o

\* main.py:214  "uploads" in str(source_path): the path lies in uploads_dir
\* (no video id or data_dir of the model contains that word).
InUploads(p) == p.dir = "uploads"

\* An exception reaches the except clause of process_transcription_task.
Caught(j, msg) ==
    /\ exc' = [exc EXCEPT ![j] = msg]
    /\ pc' = [pc EXCEPT ![j] = "handler"]

\* ------------------------------------------------------------------ submit
\* A rejection that has already published the first snapshot of a job.
CreateRejectedAfterSnapshot ==
    /\ LoopFree
    /\ response' = Response("create", 0, 400, NoBody)
    /\ nextId \in Solo
    /\ progress_store' = [progress_store EXCEPT ![nextId] = Snap(0, PENDING, None)]
    /\ UNCHANGED <<db, files, nextId, reported, deleted>>
    /\ UNCHANGED taskVars
    /\ UNCHANGED procVars
    /\ UNCHANGED subVars
    /\ UNCHANGED callVars

\* main.py:108-109  neither file nor URL: HTTPException(400) before anything else.
CreateRejected ==
    /\ LoopFree
    /\ response' = Response("create", 0, 400, NoBody)
    /\ UNCHANGED stateVars

\* main.py:111-161 and transcription.py:133-164: the request up to its response.
\* The uploaded file is written, the row is added and flushed inside the open
\* session, the first snapshot is published and the task is queued.
\* kind = "file": e is the suffix of the uploaded name; kind = "youtube": u is the URL.
CreateStart(j, kind, e, u) ==
    /\ LoopFree
    /\ j = nextId
    /\ pc[j] = "none"
    /\ nextId' = nextId + 1
    /\ source_type' = [source_type EXCEPT ![j] = kind]
    /\ IF kind = "file"
       THEN /\ files' = files \cup {UploadPath(j, e)}
            /\ source_path' = [source_path EXCEPT ![j] = UploadPath(j, e)]
            /\ youtube_url' = [youtube_url EXCEPT ![j] = NoUrl]
       ELSE /\ files' = files
            /\ source_path' = [source_path EXCEPT ![j] = NoPath]
            /\ youtube_url' = [youtube_url EXCEPT ![j] = u]
    /\ obj' = [obj EXCEPT ![j] = NewRow(kind, IF kind = "file" THEN "upload" ELSE "url", j)]
    /\ Publish(j, 0, PENDING, None)
    /\ pc' = [pc EXCEPT ![j] = "creating"]
    /\ UNCHANGED <<db, title, svc, exc, escaping, audio_path, segments,
                   last_progress, wduration>>
    /\ UNCHANGED subVars
    /\ UNCHANGED deleted
    /\ response' = NoResponse
    /\ UNCHANGED callVars

\* database.py:36  the commit that ends create_transcription's session. On
\* success the row is in the registry and the background task runs after the
\* response; on failure the request ends in an error and the task never runs.
\* main.py:157-161  the response: the id, the row's status and progress=0.
CreateCommit(j, ok) ==
    /\ LoopFree
    /\ pc[j] = "creating"
    /\ db' = [db EXCEPT ![j] = get_session_exit(~ok, db[j], obj[j])]
    /\ obj' = [obj EXCEPT ![j] = NoRow]
    /\ pc' = [pc EXCEPT ![j] = IF ok THEN "start" ELSE "rejected"]
    /\ UNCHANGED <<nextId, files, source_type, source_path, youtube_url, title,
                   svc, exc, escaping, audio_path, segments, last_progress, wduration>>
    /\ UNCHANGED pubVars
    /\ UNCHANGED subVars
    /\ UNCHANGED deleted
    /\ response' = IF ok
                   THEN Response("create", j, 200, [status |-> obj[j].status, progress |-> 0])
                   ELSE Response("create", j, 500, NoBody)
    /\ UNCHANGED callVars

\* ------------------------------------------------------------------ delete
\* main.py:316-330, transcription.py:190-200 and database.py:35-39: the row is
\* found and marked deleted in the session, the snapshot is dropped, and the
\* session commits on the way out; a commit that raises rolls the delete back
\* and leaves the snapshot dropped. The caller gets {"message": "Deleted"} when
\* the commit went through.
\* A delete endpoint that answers "Deleted" whatever the lookup found.
DeleteCodeAlwaysDeleted(found, committed) == IF committed THEN 200 ELSE 500

\* transcription.py:196-200 and main.py:321-330: delete_transcription returns
\* False for an id it does not find and the endpoint answers 404; else
\* {"message": "Deleted"}, or an error when the commit raises.
DeleteCode(found, committed) ==
    IF ~found THEN 404 ELSE IF committed THEN 200 ELSE 500

DeleteTranscription(j, ok) ==
    /\ LoopFree
    /\ db[j] # NoRow
    /\ progress_store' = [progress_store EXCEPT ![j] = NoSnap]
    /\ db' = [db EXCEPT ![j] = get_session_exit(~ok, db[j], NoRow)]
    /\ UNCHANGED <<nextId, files, reported>>
    /\ UNCHANGED taskVars
    /\ UNCHANGED procVars
    /\ UNCHANGED subVars
    /\ deleted' = [deleted EXCEPT ![j] = @ \/ ok]
    /\ response' = Response("delete", j, DeleteCode(Present(db[j]), ok), NoBody)
    /\ UNCHANGED callVars

\* main.py:323-324  unknown id: HTTPException(404), nothing changes.
DeleteNotFound(j) ==
    /\ LoopFree
    /\ db[j] = NoRow
    /\ response' = Response("delete", j, DeleteCode(Present(db[j]), TRUE), NoBody)
    /\ UNCHANGED stateVars

\* ------------------------------------------------------------------ query
\* models.py:68-83  Transcription.to_dict(): the columns of the row, by name.
to_dict(j, row) ==
    [id |-> j, created_at |-> row.created_at, source_type |-> row.source_type,
     source_name |-> row.source_name, duration_seconds |-> row.duration_seconds,
     text |-> row.text, segments |-> row.segments, status |-> row.status,
     error_message |-> row.error_message, progress |-> row.progress]

\* main.py:217-227  GET /api/transcriptions/{id}: 404 for an unknown id, else
\* the committed row as a dictionary; the session commits nothing new.
GetTranscription(j) ==
    /\ LoopFree
    /\ response' = IF Present(db[j])
                   THEN Response("get", j, 200, to_dict(j, db[j]))
                   ELSE Response("get", j, 404, NoBody)
    /\ UNCHANGED stateVars

\* ------------------------------------------------------------------ download
\* A download endpoint that serves every row that is not running.
DownloadCodeServesFailed(row) ==
    IF ~Present(row) THEN 404 ELSE IF row.status \notin Terminal THEN 400 ELSE 200

\* main.py:269-273  404 for an unknown id, 400 unless the status is completed
DownloadCode(row) ==
    IF ~Present(row) THEN 404 ELSE IF row.status # COMPLETED THEN 400 ELSE 200

\* Formats the download endpoint is asked for: "srt", and anything else is markdown.
Formats == {"md", "srt"}

\* main.py:259-291  GET /api/transcriptions/{id}/download: the artifact is
\* rendered from the segments of the committed row; nothing is written.
DownloadTranscription(j, fmt) ==
    /\ LoopFree
    /\ response' = Response("download", j, DownloadCode(db[j]),
                            IF DownloadCode(db[j]) = 200
                            THEN [format |-> fmt, segments |-> db[j].segments]
                            ELSE NoBody)
    /\ UNCHANGED stateVars

\* ------------------------------------------------------------------ the task
\* main.py:176  service = TranscriptionService(...): AudioExtractor() and
\* WhisperEngine() are constructed and may raise.
ConstructService(j, ok) ==
    /\ pc[j] = "start"
    /\ IF ok
       THEN /\ svc' = [svc EXCEPT ![j] = TRUE]
            /\ pc' = [pc EXCEPT ![j] =
                        IF source_type[j] = "youtube" /\ youtube_url[j] # NoUrl
                        THEN "download" ELSE "check"]
            /\ exc' = exc
       ELSE /\ svc' = svc
            /\ Caught(j, "service construction failed")
    /\ UNCHANGED <<db, nextId, files, source_type, source_path, youtube_url,
                   title, escaping>>
    /\ UNCHANGED procVars
    /\ UNCHANGED pubVars
    /\ UNCHANGED subVars
    /\ UNCHANGED deleted
    /\ response' = NoResponse
    /\ UNCHANGED callVars

\* main.py:183-185 and youtube.py:83-128: update_progress(5, "downloading"),
\* then download(). outcome:
\*   "invalid"   the URL matches no pattern: ValueError, nothing touched
\*   "neterr"    yt-dlp raises, no file written
\*   "ok"        yt-dlp writes temp/<id>.<raw>; a non-wav file is converted by
\*               extract_audio and then unlinked
\*   "converr"   the file is written and ffmpeg fails on the conversion
Download(j, outcome, raw) ==
    /\ pc[j] = "download"
    /\ Publish(j, 5, DOWNLOADING, None)
    /\ LET u == youtube_url[j]
           v == extract_video_id(u)
           rawPath == Path("temp", v, raw)
       IN  IF ~is_youtube_url(u)
           THEN /\ outcome = "invalid"
                /\ Caught(j, "Invalid YouTube URL")
                /\ UNCHANGED <<files, source_path, title>>
           ELSE \/ /\ outcome = "neterr"
                   /\ Caught(j, "download error")
                   /\ UNCHANGED <<files, source_path, title>>
                \/ /\ outcome = "converr"
                   /\ raw # "wav"
                   /\ files' = files \cup {rawPath}
                   /\ Caught(j, IF is_supported(rawPath) THEN "FFmpeg failed"
                                ELSE "Unsupported format")
                   /\ UNCHANGED <<source_path, title>>
                \/ /\ outcome = "ok"
                   /\ raw = "wav" \/ is_supported(rawPath)
                   /\ files' = (files \ {rawPath}) \cup {DownloadOutput(v)}
                   /\ source_path' = [source_path EXCEPT ![j] = DownloadOutput(v)]
                   /\ title' = [title EXCEPT ![j] = "title"]
                   /\ pc' = [pc EXCEPT ![j] = "rename"]
                   /\ exc' = exc
    /\ UNCHANGED <<db, nextId, source_type, youtube_url, svc, escaping>>
    /\ UNCHANGED procVars
    /\ UNCHANGED subVars
    /\ UNCHANGED deleted
    /\ response' = NoResponse
    /\ UNCHANGED callVars

\* main.py:188-191: the session that stores the title as source_name.
Rename(j, ok) ==
    /\ pc[j] = "rename"
    /\ IF db[j] = NoRow
       THEN /\ ok
            /\ UNCHANGED <<db, exc>>
            /\ pc' = [pc EXCEPT ![j] = "check"]
       ELSE /\ db' = [db EXCEPT ![j] =
                        get_session_exit(~ok, db[j], [db[j] EXCEPT !.source_name = title[j]])]
            /\ IF ok
               THEN /\ pc' = [pc EXCEPT ![j] = "check"]
                    /\ exc' = exc
               ELSE Caught(j, "commit failed")
    /\ UNCHANGED <<nextId, files, source_type, source_path, youtube_url, title,
                   svc, escaping>>
    /\ UNCHANGED procVars
    /\ UNCHANGED pubVars
    /\ UNCHANGED subVars
    /\ UNCHANGED deleted
    /\ response' = NoResponse
    /\ UNCHANGED callVars

\* main.py:193-194
CheckSource(j) ==
    /\ pc[j] = "check"
    /\ IF source_path[j] = NoPath \/ source_path[j] \notin files
       THEN Caught(j, "Source file not found")
       ELSE /\ pc' = [pc EXCEPT ![j] = "begin"]
            /\ exc' = exc
    /\ UNCHANGED <<db, nextId, files, source_type, source_path, youtube_url,
                   title, svc, escaping>>
    /\ UNCHANGED procVars
    /\ UNCHANGED pubVars
    /\ UNCHANGED subVars
    /\ UNCHANGED deleted
    /\ response' = NoResponse
    /\ UNCHANGED callVars

\* ------------------------------------------------------------------ process_transcription
\* transcription.py:283-288  the except clause of process_transcription, run on
\* the session's row o: the row is marked failed, the callback publishes
\* (o.progress, "failed") and the exception is raised again into get_session.
Except(j, o, msg) ==
    /\ obj' = [obj EXCEPT ![j] = [o EXCEPT !.status = FAILED, !.error_message = msg]]
    /\ Publish(j, o.progress, FAILED, None)
    /\ exc' = [exc EXCEPT ![j] = msg]
    /\ pc' = [pc EXCEPT ![j] = "rollback"]

\* transcription.py:231-241: the session is opened and the row fetched; a
\* missing row ends the call; else status = processing is flushed and
\* progress_callback(5, "processing") is made.
BeginProcessing(j, ok) ==
    /\ pc[j] = "begin"
    /\ IF db[j] = NoRow
       THEN /\ ok
            /\ pc' = [pc EXCEPT ![j] = "finally"]
            /\ UNCHANGED <<obj, exc>>
            /\ UNCHANGED pubVars
       ELSE LET o == [db[j] EXCEPT !.status = PROCESSING]
            IN  IF ok
                THEN /\ obj' = [obj EXCEPT ![j] = o]
                     /\ Publish(j, 5, PROCESSING, None)
                     /\ pc' = [pc EXCEPT ![j] = "extract"]
                     /\ exc' = exc
                ELSE Except(j, o, "flush failed")
    /\ UNCHANGED <<db, nextId, files, source_type, source_path, youtube_url,
                   title, svc, escaping, audio_path, segments, last_progress, wduration>>
    /\ UNCHANGED subVars
    /\ UNCHANGED deleted
    /\ response' = NoResponse
    /\ UNCHANGED callVars

\* transcription.py:244 and audio.py:41-90  extract_audio(file_path). When the
\* source already is temp/<stem>.wav (a downloaded file) ffmpeg is asked to
\* write onto its input; both of its outcomes are kept.
ExtractAudio(j, outcome) ==
    /\ pc[j] = "extract"
    /\ LET src == source_path[j]
       IN  IF src \notin files
           THEN /\ outcome = "missing"
                /\ Except(j, obj[j], "Video file not found")
                /\ UNCHANGED <<files, audio_path>>
           ELSE IF ~is_supported(src)
           THEN /\ outcome = "unsupported"
                /\ Except(j, obj[j], "Unsupported format")
                /\ UNCHANGED <<files, audio_path>>
           ELSE \/ /\ outcome = "ffmpegerr"
                   /\ Except(j, obj[j], "FFmpeg failed")
                   /\ UNCHANGED <<files, audio_path>>
                \/ /\ outcome = "ok"
                   /\ files' = files \cup {ExtractOutput(src)}
                   /\ audio_path' = [audio_path EXCEPT ![j] = ExtractOutput(src)]
                   /\ pc' = [pc EXCEPT ![j] = "probe"]
                   /\ UNCHANGED <<obj, exc>>
                   /\ UNCHANGED pubVars
    /\ UNCHANGED <<db, nextId, source_type, source_path, youtube_url,
                   title, svc, escaping, segments, last_progress, wduration>>
    /\ UNCHANGED subVars
    /\ UNCHANGED deleted
    /\ response' = NoResponse
    /\ UNCHANGED callVars

\* transcription.py:247-248 and audio.py:92-111  get_duration(file_path):
\* subprocess.run raises when the ffprobe executable cannot be started; else
\* the probed duration, or 0.0. This runs before the try/finally of line 250.
ProbeDuration(j, ok, d) ==
    /\ pc[j] = "probe"
    /\ IF ok
       THEN /\ obj' = [obj EXCEPT ![j].duration_seconds = d]
            /\ pc' = [pc EXCEPT ![j] = "transcribe"]
            /\ exc' = exc
            /\ UNCHANGED pubVars
       ELSE /\ d = 0
            /\ Except(j, obj[j], "ffprobe could not be started")
    /\ UNCHANGED <<db, nextId, files, source_type, source_path, youtube_url,
                   title, svc, escaping, audio_path, segments, last_progress, wduration>>
    /\ UNCHANGED subVars
    /\ UNCHANGED deleted
    /\ response' = NoResponse
    /\ UNCHANGED callVars

\* whisper.py:88-104  the start of WhisperEngine.transcribe in the executor
\* thread: the audio file must exist, the model is loaded and asked for the
\* segment iterator and the info (duration).
WhisperStart(j, ok, wd) ==
    /\ pc[j] = "transcribe"
    /\ IF audio_path[j] \notin files
       THEN /\ ~ok /\ wd = 0
            /\ exc' = [exc EXCEPT ![j] = "Audio file not found"]
            /\ pc' = [pc EXCEPT ![j] = "failing"]
            /\ UNCHANGED <<segments, last_progress, wduration>>
       ELSE IF ok
            THEN /\ segments' = [segments EXCEPT ![j] = <<>>]
                 /\ last_progress' = [last_progress EXCEPT ![j] = 0]
                 /\ wduration' = [wduration EXCEPT ![j] = wd]
                 /\ pc' = [pc EXCEPT ![j] = "whisper"]
                 /\ exc' = exc
            ELSE /\ wd = 0
                 /\ exc' = [exc EXCEPT ![j] = "transcription failed"]
                 /\ pc' = [pc EXCEPT ![j] = "failing"]
                 /\ UNCHANGED <<segments, last_progress, wduration>>
    /\ UNCHANGED <<db, nextId, files, source_type, source_path, youtube_url,
                   title, svc, escaping, obj, audio_path>>
    /\ UNCHANGED pubVars
    /\ UNCHANGED subVars
    /\ UNCHANGED deleted
    /\ response' = NoResponse
    /\ UNCHANGED callVars

\* transcription.py:252-255  whisper_progress(p), on the session's row.
whisper_progress(j, p) ==
    /\ obj' = [obj EXCEPT ![j].progress = ServerScale(p)]
    /\ Publish(j, ServerScale(p), PROCESSING, None)

\* A segment loop without the comparison against last_progress.
ReportsEverySegment(progress, last) == TRUE

\* whisper.py:118  whether a segment's progress is reported
Reports(progress, last) == progress > last

\* whisper.py:106-120  one iteration of the segment loop; e is the segment's end.
WhisperSegment(j, e) ==
    /\ pc[j] = "whisper"
    /\ Len(segments[j]) < MaxSegs
    /\ segments' = [segments EXCEPT ![j] = Append(@, Segment(0, e, SegText))]
    /\ IF wduration[j] > 0 /\ Reports(LocalProgress(e, wduration[j]), last_progress[j])
       THEN /\ whisper_progress(j, Min(LocalProgress(e, wduration[j]), 100))
            /\ last_progress' = [last_progress EXCEPT ![j] = LocalProgress(e, wduration[j])]
       ELSE /\ UNCHANGED <<obj, last_progress>>
            /\ UNCHANGED pubVars
    /\ UNCHANGED <<db, nextId, files, audio_path, wduration>>
    /\ UNCHANGED taskVars
    /\ UNCHANGED subVars
    /\ UNCHANGED deleted
    /\ response' = NoResponse
    /\ UNCHANGED callVars

\* whisper.py:106  the segment iterator raises (decoding is lazy).
WhisperFail(j) ==
    /\ pc[j] = "whisper"
    /\ exc' = [exc EXCEPT ![j] = "transcription failed"]
    /\ pc' = [pc EXCEPT ![j] = "failing"]
    /\ UNCHANGED <<db, nextId, files, source_type, source_path, youtube_url,
                   title, svc, escaping>>
    /\ UNCHANGED procVars
    /\ UNCHANGED pubVars
    /\ UNCHANGED subVars
    /\ UNCHANGED deleted
    /\ response' = NoResponse
    /\ UNCHANGED callVars

\* whisper.py:122-126  progress_callback(100) and the return.
WhisperDone(j) ==
    /\ pc[j] = "whisper"
    /\ whisper_progress(j, 100)
    /\ pc' = [pc EXCEPT ![j] = "finish"]
    /\ UNCHANGED <<db, nextId, files, source_type, source_path, youtube_url,
                   title, svc, exc, escaping, audio_path, segments, last_progress,
                   wduration>>
    /\ UNCHANGED subVars
    /\ UNCHANGED deleted
    /\ response' = NoResponse
    /\ UNCHANGED callVars

\* The locals of WhisperEngine.transcribe stop existing when the call ends;
\* the segment list is what it returns (transcription.py:259), if it returns.
TranscribeEnds(j, returned) ==
    /\ segments' = [segments EXCEPT ![j] = IF returned THEN @ ELSE <<>>]
    /\ last_progress' = [last_progress EXCEPT ![j] = 0]
    /\ wduration' = [wduration EXCEPT ![j] = 0]

\* A completion that leaves progress where the last callback put it.
CompletedRowKeepsProgress(o, segs) ==
    [o EXCEPT !.text = to_plain_text(segs), !.segments = segs, !.status = COMPLETED]

\* transcription.py:269-273  the row as the successful run leaves it
CompletedRow(o, segs) ==
    [o EXCEPT !.text = to_plain_text(segs), !.segments = segs,
              !.status = COMPLETED, !.progress = 100]

\* transcription.py:268-288 after the executor returned: the row is filled,
\* (100, "completed") is published, and the finally clause unlinks the audio
\* file if it exists; an unlink that raises enters the except clause.
Finish(j, unlinkOk) ==
    /\ pc[j] = "finish"
    /\ LET o == CompletedRow(obj[j], segments[j])
       IN  IF audio_path[j] \in files /\ ~unlinkOk
           THEN /\ obj' = [obj EXCEPT ![j] =
                             [o EXCEPT !.status = FAILED, !.error_message = "unlink failed"]]
                /\ progress_store' = [progress_store EXCEPT ![j] = Snap(o.progress, FAILED, None)]
                /\ reported' = [reported EXCEPT ![j] = 100]
                /\ exc' = [exc EXCEPT ![j] = "unlink failed"]
                /\ pc' = [pc EXCEPT ![j] = "rollback"]
                /\ files' = files
           ELSE /\ unlinkOk
                /\ obj' = [obj EXCEPT ![j] = o]
                /\ Publish(j, 100, COMPLETED, None)
                /\ files' = files \ {audio_path[j]}
                /\ pc' = [pc EXCEPT ![j] = "commit"]
                /\ exc' = exc
    /\ UNCHANGED <<db, nextId, source_type, source_path, youtube_url,
                   title, svc, escaping, audio_path>>
    /\ TranscribeEnds(j, TRUE)
    /\ UNCHANGED subVars
    /\ UNCHANGED deleted
    /\ response' = NoResponse
    /\ UNCHANGED callVars

\* transcription.py:278-288 when the executor raised: the finally clause, then
\* the except clause with the exception that is then in flight.
FailCleanup(j, unlinkOk) ==
    /\ pc[j] = "failing"
    /\ IF audio_path[j] \in files /\ ~unlinkOk
       THEN /\ files' = files
            /\ Except(j, obj[j], "unlink failed")
       ELSE /\ unlinkOk
            /\ files' = files \ {audio_path[j]}
            /\ Except(j, obj[j], exc[j])
    /\ UNCHANGED <<db, nextId, source_type, source_path, youtube_url,
                   title, svc, escaping, audio_path>>
    /\ TranscribeEnds(j, FALSE)
    /\ UNCHANGED subVars
    /\ UNCHANGED deleted
    /\ response' = NoResponse
    /\ UNCHANGED callVars

\* database.py:35-36  the commit that ends process_transcription's session. An
\* UPDATE of a row that a delete has removed meanwhile raises (StaleDataError).
CommitProcessing(j, ok) ==
    /\ pc[j] = "commit"
    /\ LET good == ok /\ db[j] # NoRow
       IN  /\ db' = [db EXCEPT ![j] = get_session_exit(~good, db[j], obj[j])]
           /\ IF good
              THEN /\ obj' = [obj EXCEPT ![j] = NoRow]
                   /\ pc' = [pc EXCEPT ![j] = "finally"]
                   /\ exc' = exc
              ELSE /\ obj' = obj
                   /\ exc' = [exc EXCEPT ![j] = "commit failed"]
                   /\ pc' = [pc EXCEPT ![j] = "rollback"]
    /\ UNCHANGED <<nextId, files, source_type, source_path, youtube_url,
                   title, svc, escaping, audio_path, last_progress, wduration>>
    /\ segments' = [segments EXCEPT ![j] = IF ok /\ db[j] # NoRow THEN <<>> ELSE @]
    /\ UNCHANGED pubVars
    /\ UNCHANGED subVars
    /\ UNCHANGED deleted
    /\ response' = NoResponse
    /\ UNCHANGED callVars

\* database.py:37-39  rollback, then the exception leaves process_transcription.
Rollback(j) ==
    /\ pc[j] = "rollback"
    /\ db' = [db EXCEPT ![j] = get_session_exit(TRUE, db[j], obj[j])]
    /\ obj' = [obj EXCEPT ![j] = NoRow]
    /\ pc' = [pc EXCEPT ![j] = "handler"]
    /\ UNCHANGED <<nextId, files, source_type, source_path, youtube_url,
                   title, svc, exc, escaping, audio_path, last_progress, wduration>>
    /\ segments' = [segments EXCEPT ![j] = <<>>]
    /\ UNCHANGED pubVars
    /\ UNCHANGED subVars
    /\ UNCHANGED deleted
    /\ response' = NoResponse
    /\ UNCHANGED callVars

\* ------------------------------------------------------------------ the task's except and finally
\* main.py:203-204  the failed snapshot of the task's except clause.
Handler(j) ==
    /\ pc[j] = "handler"
    /\ Publish(j, 0, FAILED, exc[j])
    /\ pc' = [pc EXCEPT ![j] = "mark"]
    /\ UNCHANGED <<db, nextId, files, source_type, source_path, youtube_url,
                   title, svc, exc, escaping>>
    /\ UNCHANGED procVars
    /\ UNCHANGED subVars
    /\ UNCHANGED deleted
    /\ response' = NoResponse
    /\ UNCHANGED callVars

\* main.py:206-210  the session that marks the row failed. `service` is unbound
\* when its construction raised: the name lookup raises inside the except clause.
MarkFailed(j, ok) ==
    /\ pc[j] = "mark"
    /\ IF ~svc[j]
       THEN /\ ~ok
            /\ escaping' = [escaping EXCEPT ![j] = TRUE]
            /\ db' = db
       ELSE IF db[j] = NoRow
       THEN /\ ok
            /\ UNCHANGED <<db, escaping>>
       ELSE /\ db' = [db EXCEPT ![j] =
                        get_session_exit(~ok, db[j],
                            [db[j] EXCEPT !.status = FAILED, !.error_message = exc[j]])]
            /\ escaping' = [escaping EXCEPT ![j] = ~ok]
    /\ pc' = [pc EXCEPT ![j] = "finally"]
    /\ UNCHANGED <<nextId, files, source_type, source_path, youtube_url,
                   title, svc, exc>>
    /\ UNCHANGED procVars
    /\ UNCHANGED pubVars
    /\ UNCHANGED subVars
    /\ UNCHANGED deleted
    /\ response' = NoResponse
    /\ UNCHANGED callVars

\* How the task ended: it returned with no exception caught, it returned after
\* its except clause handled one, or an exception left it.
Exit(caught, escapes) ==
    IF escapes THEN "raised" ELSE IF caught THEN "handled" ELSE "returned"

\* main.py:212-215  the finally clause; then the task returns, or the exception
\* in flight (or the one unlink raised) leaves it, and its locals are gone.
Finally(j, unlinkOk) ==
    /\ pc[j] = "finally"
    /\ IF source_path[j] # NoPath /\ source_path[j] \in files /\ InUploads(source_path[j])
       THEN IF unlinkOk
            THEN /\ files' = files \ {source_path[j]}
                 /\ pc' = [pc EXCEPT ![j] = Exit(exc[j] # None, escaping[j])]
            ELSE /\ files' = files
                 /\ pc' = [pc EXCEPT ![j] = Exit(exc[j] # None, TRUE)]
       ELSE /\ unlinkOk
            /\ files' = files
            /\ pc' = [pc EXCEPT ![j] = Exit(exc[j] # None, escaping[j])]
    /\ source_path' = [source_path EXCEPT ![j] = NoPath]
    /\ title' = [title EXCEPT ![j] = None]
    /\ svc' = [svc EXCEPT ![j] = FALSE]
    /\ exc' = [exc EXCEPT ![j] = None]
    /\ escaping' = [escaping EXCEPT ![j] = FALSE]
    /\ audio_path' = [audio_path EXCEPT ![j] = NoPath]
    /\ UNCHANGED <<db, nextId, source_type, youtube_url, obj, segments, last_progress,
                   wduration>>
    /\ UNCHANGED pubVars
    /\ UNCHANGED subVars
    /\ UNCHANGED deleted
    /\ response' = NoResponse
    /\ UNCHANGED callVars

\* ------------------------------------------------------------------ list
\* The ids of the rows a registry holds.
Ids(reg) == {j \in DOMAIN reg : Present(reg[j])}

\* A query that orders the rows oldest first.
OrderedOldestFirst(reg) ==
    {p \in [1..Cardinality(Ids(reg)) -> Ids(reg)] :
        /\ \A a, b \in DOMAIN p : a # b => p[a] # p[b]
        /\ \A a, b \in DOMAIN p : a < b => reg[p[a]].created_at <= reg[p[b]].created_at}

\* transcription.py:185  .order_by(Transcription.created_at.desc()): the
\* orders in which the database may return the rows; rows with equal
\* created_at come in any order.
Ordered(reg) ==
    {p \in [1..Cardinality(Ids(reg)) -> Ids(reg)] :
        /\ \A a, b \in DOMAIN p : a # b => p[a] # p[b]
        /\ \A a, b \in DOMAIN p : a < b => reg[p[a]].created_at >= reg[p[b]].created_at}

\* transcription.py:177-188  list_transcriptions(session, limit): the results
\* the query can give, .limit(limit) applied to the ordered rows.
list_transcriptions(reg, limit) ==
    {SubSeq(p, 1, Min(limit, Len(p))) : p \in Ordered(reg)}

\* main.py:294-313  GET /api/transcriptions, and the service function with a
\* limit of the caller's: one item per row returned, in the order returned.
ListTranscriptions(limit, result) ==
    /\ LoopFree
    /\ result \in list_transcriptions(db, limit)
    /\ response' = Response("list", 0, 200,
                            [limit |-> limit,
                             items |-> [i \in 1..Len(result) |->
                                          [id |-> result[i],
                                           status |-> db[result[i]].status,
                                           created_at |-> db[result[i]].created_at]]])
    /\ UNCHANGED stateVars

\* A registry as a restarted server finds it: rows stored by earlier
\* submissions, no task, no snapshot.
InitList ==
    /\ db \in [Jobs -> {NoRow} \cup {NewRow("file", "upload", t) : t \in Times}]
    /\ progress_store = [j \in Jobs |-> NoSnap]
    /\ files = {}
    /\ nextId = MaxJobs + 1
    /\ pc = [j \in Jobs |-> "none"]
    /\ source_type = [j \in Jobs |-> None]
    /\ source_path = [j \in Jobs |-> NoPath]
    /\ youtube_url = [j \in Jobs |-> NoUrl]
    /\ title = [j \in Jobs |-> None]
    /\ svc = [j \in Jobs |-> FALSE]
    /\ exc = [j \in Jobs |-> None]
    /\ escaping = [j \in Jobs |-> FALSE]
    /\ obj = [j \in Jobs |-> NoRow]
    /\ audio_path = [j \in Jobs |-> NoPath]
    /\ segments = [j \in Jobs |-> <<>>]
    /\ last_progress = [j \in Jobs |-> 0]
    /\ wduration = [j \in Jobs |-> 0]
    /\ reported = [j \in Jobs |-> -1]
    /\ sub_pc = [j \in Jobs |-> "off"]
    /\ sub_last = [j \in Jobs |-> -1]
    /\ events = [j \in Jobs |-> <<>>]
    /\ deleted = [j \in Jobs |-> FALSE]
    /\ response = NoResponse
    /\ NoDirectCall

NextList ==
    \/ \E limit \in Limits : \E result \in list_transcriptions(db, limit) :
          ListTranscriptions(limit, result)
    \/ \E j \in Jobs, ok \in BOOLEAN : DeleteTranscription(j, ok)
    \/ \E j \in Jobs : DeleteNotFound(j)

SpecList == InitList /\ [][NextList]_vars

\* ------------------------------------------------------------------ the event stream
\* main.py:231-256  GET /api/transcriptions/{id}/events: the generator starts
\* with last_progress = -1; the id is not looked up in the registry.
Subscribe(j) ==
    /\ LoopFree
    /\ sub_pc[j] = "off"
    /\ sub_pc' = [sub_pc EXCEPT ![j] = "on"]
    /\ sub_last' = [sub_last EXCEPT ![j] = -1]
    /\ events' = [events EXCEPT ![j] = <<>>]
    /\ UNCHANGED <<db, files, nextId>>
    /\ UNCHANGED taskVars
    /\ UNCHANGED procVars
    /\ UNCHANGED pubVars
    /\ UNCHANGED deleted
    /\ response' = NoResponse
    /\ UNCHANGED callVars

\* A generator that removes the snapshot from the store once it has emitted a
\* terminal one.
PollAndForget(j) ==
    /\ LoopFree
    /\ sub_pc[j] = "on"
    /\ IF Present(progress_store[j])
          /\ (progress_store[j].progress # sub_last[j] \/ progress_store[j].status \in Terminal)
       THEN /\ events' = [events EXCEPT ![j] = Append(@, progress_store[j])]
            /\ sub_last' = [sub_last EXCEPT ![j] = progress_store[j].progress]
            /\ sub_pc' = [sub_pc EXCEPT ![j] =
                            IF progress_store[j].status \in Terminal THEN "done" ELSE "on"]
            /\ progress_store' = [progress_store EXCEPT ![j] =
                            IF progress_store[j].status \in Terminal THEN NoSnap ELSE @]
       ELSE UNCHANGED <<subVars, progress_store>>
    /\ UNCHANGED <<db, files, nextId>>
    /\ UNCHANGED taskVars
    /\ UNCHANGED procVars
    /\ UNCHANGED reported
    /\ UNCHANGED deleted
    /\ response' = NoResponse
    /\ UNCHANGED callVars

\* A generator that emits every snapshot it polls.
EmitsAlways(data, last) == TRUE

\* main.py:240  whether a polled snapshot is emitted
Emits(data, last) == data.progress # last \/ data.status \in {COMPLETED, FAILED}

\* A generator that never leaves its loop.
NeverBreaks(data) == FALSE

\* main.py:251-252  whether the generator leaves its loop after the emission
Breaks(data) == data.status \in {COMPLETED, FAILED}

\* main.py:237-254  one iteration of the generator's loop, from the lookup in
\* progress_store to the sleep: nothing else runs in between.
Poll(j) ==
    /\ LoopFree
    /\ sub_pc[j] = "on"
    /\ IF Present(progress_store[j]) /\ Emits(progress_store[j], sub_last[j])
       THEN /\ events' = [events EXCEPT ![j] = Append(@, progress_store[j])]
            /\ sub_last' = [sub_last EXCEPT ![j] = progress_store[j].progress]
            /\ sub_pc' = [sub_pc EXCEPT ![j] =
                            IF Breaks(progress_store[j]) THEN "done" ELSE "on"]
       ELSE UNCHANGED subVars
    /\ UNCHANGED <<db, files, nextId>>
    /\ UNCHANGED taskVars
    /\ UNCHANGED procVars
    /\ UNCHANGED pubVars
    /\ UNCHANGED deleted
    /\ response' = NoResponse
    /\ UNCHANGED callVars

\* ------------------------------------------------------------------ specification
Next ==
    \/ CreateRejected
    \/ \E j \in Solo, e \in UploadExts : CreateStart(j, "file", e, NoUrl)
    \/ \E j \in Solo, u \in Urls : CreateStart(j, "youtube", "", u)
    \/ \E j \in Solo, ok \in BOOLEAN : CreateCommit(j, ok)
    \/ \E j \in Solo, ok \in BOOLEAN : DeleteTranscription(j, ok)
    \/ \E j \in Solo : DeleteNotFound(j)
    \/ \E j \in Solo, fmt \in Formats : DownloadTranscription(j, fmt)
    \/ \E j \in Solo : GetTranscription(j)
    \/ \E j \in Solo, ok \in BOOLEAN : ConstructService(j, ok)
    \/ \E j \in Solo, outcome \in {"invalid", "neterr", "converr", "ok"}, raw \in RawExts :
          Download(j, outcome, raw)
    \/ \E j \in Solo, ok \in BOOLEAN : Rename(j, ok)
    \/ \E j \in Solo : CheckSource(j)
    \/ \E j \in Solo, ok \in BOOLEAN : BeginProcessing(j, ok)
    \/ \E j \in Solo, outcome \in {"missing", "unsupported", "ffmpegerr", "ok"} :
          ExtractAudio(j, outcome)
    \/ \E j \in Solo, ok \in BOOLEAN, d \in ProbedDurations : ProbeDuration(j, ok, d)
    \/ \E j \in Solo, ok \in BOOLEAN, wd \in WhisperDurations : WhisperStart(j, ok, wd)
    \/ \E j \in Solo, e \in SegEnds : WhisperSegment(j, e)
    \/ \E j \in Solo : WhisperFail(j)
    \/ \E j \in Solo : WhisperDone(j)
    \/ \E j \in Solo, ok \in BOOLEAN : Finish(j, ok)
    \/ \E j \in Solo, ok \in BOOLEAN : FailCleanup(j, ok)
    \/ \E j \in Solo, ok \in BOOLEAN : CommitProcessing(j, ok)
    \/ \E j \in Solo : Rollback(j)
    \/ \E j \in Solo : Handler(j)
    \/ \E j \in Solo, ok \in BOOLEAN : MarkFailed(j, ok)
    \/ \E j \in Solo, ok \in BOOLEAN : Finally(j, ok)
    \/ \E j \in Solo : Subscribe(j)
    \/ \E j \in Solo : Poll(j)

Spec == Init /\ [][Next]_vars

\* The steps of job j that need no caller: the commit that ends the submit
\* request and the steps of the background task, whatever their outcome.
TaskStep(j) ==
    \/ \E ok \in BOOLEAN : CreateCommit(j, ok)
    \/ \E ok \in BOOLEAN : ConstructService(j, ok)
    \/ \E outcome \in {"invalid", "neterr", "converr", "ok"}, raw \in RawExts :
          Download(j, outcome, raw)
    \/ \E ok \in BOOLEAN : Rename(j, ok)
    \/ CheckSource(j)
    \/ \E ok \in BOOLEAN : BeginProcessing(j, ok)
    \/ \E outcome \in {"missing", "unsupported", "ffmpegerr", "ok"} : ExtractAudio(j, outcome)
    \/ \E ok \in BOOLEAN, d \in ProbedDurations : ProbeDuration(j, ok, d)
    \/ \E ok \in BOOLEAN, wd \in WhisperDurations : WhisperStart(j, ok, wd)
    \/ \E e \in SegEnds : WhisperSegment(j, e)
    \/ WhisperFail(j)
    \/ WhisperDone(j)
    \/ \E ok \in BOOLEAN : Finish(j, ok)
    \/ \E ok \in BOOLEAN : FailCleanup(j, ok)
    \/ \E ok \in BOOLEAN : CommitProcessing(j, ok)
    \/ Rollback(j)
    \/ Handler(j)
    \/ \E ok \in BOOLEAN : MarkFailed(j, ok)
    \/ \E ok \in BOOLEAN : Finally(j, ok)

\* The event loop runs every task that is ready and every collaborator call
\* returns or raises: a job's next step is taken, and a generator that sleeps
\* polls again. Requests (submit, delete, subscribe) are the callers' choice.
FairSpec ==
    /\ Spec
    /\ \A j \in Solo : WF_vars(TaskStep(j))
    /\ \A j \in Solo : WF_vars(Poll(j))

\* Two jobs for the same remote video, side by side: every step of the
\* pipeline, with the failures that a missing file causes and no other.
NextTwo ==
    \/ \E j \in Pair, u \in {x \in Urls : is_youtube_url(x)} : CreateStart(j, "youtube", "", u)
    \/ \E j \in Pair : CreateCommit(j, TRUE)
    \/ \E j \in Pair : ConstructService(j, TRUE)
    \/ \E j \in Pair, raw \in RawExts : Download(j, "ok", raw)
    \/ \E j \in Pair : Rename(j, TRUE)
    \/ \E j \in Pair : CheckSource(j)
    \/ \E j \in Pair : BeginProcessing(j, TRUE)
    \/ \E j \in Pair, outcome \in {"missing", "ok"} : ExtractAudio(j, outcome)
    \/ \E j \in Pair, d \in ProbedDurations : ProbeDuration(j, TRUE, d)
    \/ \E j \in Pair, wd \in WhisperDurations :
          WhisperStart(j, audio_path[j] \in files, wd)
    \/ \E j \in Pair, e \in SegEnds : WhisperSegment(j, e)
    \/ \E j \in Pair : WhisperDone(j)
    \/ \E j \in Pair : Finish(j, TRUE)
    \/ \E j \in Pair : FailCleanup(j, TRUE)
    \/ \E j \in Pair : CommitProcessing(j, TRUE)
    \/ \E j \in Pair : Rollback(j)
    \/ \E j \in Pair : Handler(j)
    \/ \E j \in Pair : MarkFailed(j, TRUE)
    \/ \E j \in Pair : Finally(j, TRUE)

SpecTwo == Init /\ [][NextTwo]_vars

\* The requests of the clients while the pipeline of the first job runs, to its
\* end or to a failure of the transcription call: polling, query, download and delete of that job, the list, and the
\* submission of a second job, whose task is queued behind the first.
NextServe ==
    \/ CreateRejected
    \/ \E j \in Pair, e \in {"mp4"} : CreateStart(j, "file", e, NoUrl)
    \/ \E j \in Pair, ok \in BOOLEAN : CreateCommit(j, ok)
    \/ \E j \in Solo : DeleteTranscription(j, TRUE)
    \/ \E j \in Solo : DeleteNotFound(j)
    \/ \E j \in Solo : DownloadTranscription(j, "md")
    \/ \E j \in Solo : GetTranscription(j)
    \/ \E result \in list_transcriptions(db, DEFAULT_LIMIT) :
          ListTranscriptions(DEFAULT_LIMIT, result)
    \/ \E j \in Solo : Subscribe(j)
    \/ \E j \in Solo : Poll(j)
    \/ ConstructService(1, TRUE)
    \/ CheckSource(1)
    \/ BeginProcessing(1, TRUE)
    \/ ExtractAudio(1, "ok")
    \/ \E d \in ProbedDurations \ {0} : ProbeDuration(1, TRUE, d)
    \/ \E wd \in WhisperDurations : WhisperStart(1, TRUE, wd)
    \/ \E e \in SegEnds : WhisperSegment(1, e)
    \/ WhisperFail(1)
    \/ WhisperDone(1)
    \/ Finish(1, TRUE)
    \/ FailCleanup(1, TRUE)
    \/ CommitProcessing(1, TRUE)
    \/ Rollback(1)
    \/ Handler(1)
    \/ MarkFailed(1, TRUE)
    \/ Finally(1, TRUE)

SpecServe == Init /\ [][NextServe]_vars

\* ------------------------------------------------------------------ strings
\* A string is a sequence of characters; a token that is never split (a file
\* stem, a suffix) counts as one character.

\* str.strip() and str.rstrip() remove whitespace at the ends.
IsSpace(c) == c \in {" ", "\n"}

Strip(s) ==
    LET keep == {i \in 1..Len(s) : ~IsSpace(s[i])}
    IN  IF keep = {} THEN <<>>
        ELSE SubSeq(s, CHOOSE i \in keep : \A k \in keep : i <= k,
                       CHOOSE i \in keep : \A k \in keep : i >= k)

RStrip(s) ==
    LET keep == {i \in 1..Len(s) : ~IsSpace(s[i])}
    IN  IF keep = {} THEN <<>>
        ELSE SubSeq(s, 1, CHOOSE i \in keep : \A k \in keep : i >= k)

Digit(n) == <<"0", "1", "2", "3", "4", "5", "6", "7", "8", "9">>[n + 1]

\* str(n) of a natural number
RECURSIVE Str(_)
Str(n) == IF n < 10 THEN <<Digit(n)>> ELSE Str(n \div 10) \o <<Digit(n % 10)>>

\* f"{n:02d}" and f"{n:03d}": zero-padded to the width, never cut
Pad2(n) == IF n < 10 THEN <<"0">> \o Str(n) ELSE Str(n)
Pad3(n) == IF n < 10 THEN <<"0", "0">> \o Str(n)
           ELSE IF n < 100 THEN <<"0">> \o Str(n) ELSE Str(n)

\* The lists of lines a formatter builds, one list per segment, in one list.
RECURSIVE ConcatAll(_)
ConcatAll(lists) ==
    IF lists = <<>> THEN <<>> ELSE Head(lists) \o ConcatAll(Tail(lists))

\* ------------------------------------------------------------------ formatter.py
\* models.py:86-97  Segment.start and Segment.end are floats, in seconds. A time
\* of the model is a whole number of eighths of a second: binary floating point
\* represents these exactly, so the floor divisions, the remainders and the
\* int() truncations of formatter.py are exact on them.
TicksPerSecond == 8

\* A function that formats the time with the seconds rounded to the nearest.
format_time_md_rounded(seconds) ==
    LET r == ((seconds + (TicksPerSecond \div 2)) \div TicksPerSecond)
        hours == r \div 3600
        minutes == (r % 3600) \div 60
        secs == r % 60
    IN  IF hours > 0
        THEN Pad2(hours) \o <<":">> \o Pad2(minutes) \o <<":">> \o Pad2(secs)
        ELSE Pad2(minutes) \o <<":">> \o Pad2(secs)

\* formatter.py:11-18  format_time_md
format_time_md(seconds) ==
    LET hours == seconds \div (3600 * TicksPerSecond)
        minutes == (seconds % (3600 * TicksPerSecond)) \div (60 * TicksPerSecond)
        secs == (seconds % (60 * TicksPerSecond)) \div TicksPerSecond
    IN  IF hours > 0
        THEN Pad2(hours) \o <<":">> \o Pad2(minutes) \o <<":">> \o Pad2(secs)
        ELSE Pad2(minutes) \o <<":">> \o Pad2(secs)

\* A function that leaves the hours out while they are zero.
format_time_srt_short(seconds) ==
    LET hours == seconds \div (3600 * TicksPerSecond)
        minutes == (seconds % (3600 * TicksPerSecond)) \div (60 * TicksPerSecond)
        secs == (seconds % (60 * TicksPerSecond)) \div TicksPerSecond
        millis == ((seconds % TicksPerSecond) * 1000) \div TicksPerSecond
    IN  (IF hours > 0 THEN Pad2(hours) \o <<":">> ELSE <<>>)
            \o Pad2(minutes) \o <<":">> \o Pad2(secs) \o <<",">> \o Pad3(millis)

\* formatter.py:21-27  format_time_srt; (seconds % 1) * 1000 is a whole number
\* of milliseconds for every time of the model.
format_time_srt(seconds) ==
    LET hours == seconds \div (3600 * TicksPerSecond)
        minutes == (seconds % (3600 * TicksPerSecond)) \div (60 * TicksPerSecond)
        secs == (seconds % (60 * TicksPerSecond)) \div TicksPerSecond
        millis == ((seconds % TicksPerSecond) * 1000) \div TicksPerSecond
    IN  Pad2(hours) \o <<":">> \o Pad2(minutes) \o <<":">> \o Pad2(secs)
            \o <<",">> \o Pad3(millis)

\* A test of the last character of the text as it is, not right-trimmed.
EndsSentenceUntrimmed(t) ==
    t # <<>> /\ t[Len(t)] \in {".", "!", "?", "U+3002"}

\* formatter.py:63  segment.text.rstrip().endswith((".", "!", "?", "...", U+3002));
\* the ideographic full stop is the character "U+3002" of the model.
EndsSentence(t) ==
    LET r == RStrip(t)
    IN  r # <<>> /\ r[Len(r)] \in {".", "!", "?", "U+3002"}

\* formatter.py:52-56  the lines of the timestamp branch
TimestampLines(segs) ==
    ConcatAll([i \in 1..Len(segs) |->
        << <<"*", "*", "[">> \o format_time_md(segs[i].start)
               \o <<"]", "*", "*", " ">> \o segs[i].text,
           <<>> >>])

\* formatter.py:58-71  the paragraph branch from segment i on: cur is
\* current_paragraph and lines the lines appended so far.
RECURSIVE ParagraphLines(_, _, _, _)
ParagraphLines(segs, i, cur, lines) ==
    IF i > Len(segs)
    THEN IF cur # <<>> THEN lines \o <<JoinWith(<<" ">>, cur), <<>>>> ELSE lines
    ELSE LET par == Append(cur, segs[i].text)
         IN  IF EndsSentence(segs[i].text)
             THEN ParagraphLines(segs, i + 1, <<>>,
                                 lines \o <<JoinWith(<<" ">>, par), <<>>>>)
             ELSE ParagraphLines(segs, i + 1, par, lines)

\* formatter.py:29-73  to_markdown; a title of <<>> is None or "" (`if title`).
to_markdown(segs, include_timestamps, doc_title) ==
    LET head == IF doc_title # <<>> THEN << <<"#", " ">> \o doc_title, <<>> >> ELSE <<>>
        body == IF include_timestamps
                THEN TimestampLines(segs)
                ELSE ParagraphLines(segs, 1, <<>>, <<>>)
    IN  Strip(JoinWith(<<"\n">>, head \o body))

\* Subtitles whose cues are numbered from 0.
to_srt_from_zero(segs) ==
    JoinWith(<<"\n">>,
        ConcatAll([i \in 1..Len(segs) |->
            << Str(i - 1),
               format_time_srt(segs[i].start) \o <<" ", "-", "-", ">", " ">>
                   \o format_time_srt(segs[i].end),
               segs[i].text,
               <<>> >>]))

\* formatter.py:75-96  to_srt
to_srt(segs) ==
    JoinWith(<<"\n">>,
        ConcatAll([i \in 1..Len(segs) |->
            << Str(i),
               format_time_srt(segs[i].start) \o <<" ", "-", "-", ">", " ">>
                   \o format_time_srt(segs[i].end),
               segs[i].text,
               <<>> >>]))

\* formatter.py:135-173: format_text returns what the language
\* model answered; the model's answer is this text.
FormattedText == <<"f">>

\* ------------------------------------------------------------------ youtube.py
\* youtube.py:134  the characters re.sub removes
InvalidChars == {"<", ">", ":", "\"", "/", "\\", "|", "?", "*"}

IsValidChar(c) == c \notin InvalidChars

\* A sanitizer that only cuts the name.
sanitize_truncates_only(name) == IF Len(name) > 200 THEN SubSeq(name, 1, 200) ELSE name

\* youtube.py:130-135  _sanitize_filename
sanitize_filename(name) ==
    LET kept == SelectSeq(name, IsValidChar)
    IN  IF Len(kept) > 200 THEN SubSeq(kept, 1, 200) ELSE kept

\* ------------------------------------------------------------------ progress scaling
\* A closure that adds the local progress to the offset unscaled.
FileScaleUnbanded(p) == 10 + p

\* transcription.py:83  transcribe_file.whisper_progress
FileScale(p) == 10 + ((p * 80) \div 100)

\* cli.py:192  _transcribe_youtube.update_progress
CliScale(p) == 10 + ((p * 90) \div 100)

\* The three closures that scale a local progress value, by name.
ScaleFns == {"transcribe_file.whisper_progress", "process_transcription.whisper_progress",
             "update_progress"}

\* The band each closure's literals fix: 10 + int(p * 0.8), 0.85, 0.9.
Band(fn) ==
    [offset |-> 10,
     weight |-> CASE fn = "transcribe_file.whisper_progress" -> 80
                  [] fn = "process_transcription.whisper_progress" -> 85
                  [] fn = "update_progress" -> 90]

Scaled(fn, p) ==
    CASE fn = "transcribe_file.whisper_progress" -> FileScale(p)
      [] fn = "process_transcription.whisper_progress" -> ServerScale(p)
      [] fn = "update_progress" -> CliScale(p)

\* ------------------------------------------------------------------ transcribe_file
\* What a direct call gave its caller.
Returned(v) == [kind |-> "returned", value |-> v]
Raised(e) == [kind |-> "raised", error |-> e]

\* The variables of the server that a direct call never touches.
serverVars == <<db, progress_store, nextId, source_type, youtube_url, title, svc,
                escaping, obj, reported, sub_pc, sub_last, events, deleted, response>>

\* The file transcribe_file is called with, and the directory it is told to
\* write to (output_dir; mkdir of transcription.py:70 creates it).
SourceFile(e) == Path("videos", "v", e)
OutputDir == Path("out", "", "")
OutputPath(src, e) == Path("out", src.stem, e)

\* file_path.name: the stem and the suffix
FileName(p) == <<p.stem, ".", p.ext>>

OutputFormats == {"md", "srt", "both"}

\* A transcribe_file that goes on whether or not the file exists.
ExistsAlways(p, fs) == TRUE

\* transcription.py:65  file_path.exists()
Exists(p, fs) == p \in fs

\* An enhancement step that does not ask whether the formatter is available.
EnhancesWhenRequested(use_llm, available) == use_llm

\* transcription.py:95  use_llm and self.llm_formatter.is_available
Enhances(use_llm, available) == use_llm /\ available

\* A finally clause that leaves the audio file.
NeverUnlinks(p, fs) == FALSE

\* transcription.py:130  audio_path.exists(), the guard of the unlink
Unlinks(p, fs) == Present(p) /\ p \in fs

\* transcription.py:103-121  the artifacts written for a format, in the order
\* they are written: the Markdown file for "md" and "both", then the SRT file
\* for "srt" and "both".
Artifacts(src, segs, fmt, include_timestamps) ==
    (IF fmt \in {"md", "both"}
     THEN <<[path |-> OutputPath(src, "md"),
             content |-> to_markdown(segs, include_timestamps, FileName(src))]>>
     ELSE <<>>)
    \o
    (IF fmt \in {"srt", "both"}
     THEN <<[path |-> OutputPath(src, "srt"), content |-> to_srt(segs)]>>
     ELSE <<>>)

\* transcription.py:64-74  the path is checked first: FileNotFoundError when it
\* does not exist; else the output directory is made and progress_callback(5)
\* is called.
FileStart(j) ==
    /\ args.fn = "transcribe_file"
    /\ pc[j] = "call"
    /\ IF ~Exists(source_path[j], files)
       THEN /\ call_result' = Raised("File not found")
            /\ pc' = [pc EXCEPT ![j] = "raised"]
            /\ UNCHANGED <<files, progress_calls>>
       ELSE /\ files' = files \cup {OutputDir}
            /\ progress_calls' = Append(progress_calls, 5)
            /\ pc' = [pc EXCEPT ![j] = "extract"]
            /\ call_result' = call_result
    /\ UNCHANGED <<source_path, exc, audio_path, segments, last_progress, wduration>>
    /\ UNCHANGED <<args, text, outputs, calls, llm_calls>>
    /\ UNCHANGED serverVars

\* transcription.py:76 and audio.py:41-90  extract_audio(file_path), before the
\* try statement: what it raises leaves transcribe_file at once.
FileExtract(j, outcome) ==
    /\ args.fn = "transcribe_file"
    /\ pc[j] = "extract"
    /\ LET src == source_path[j]
       IN  IF src \notin files
           THEN /\ outcome = "missing"
                /\ call_result' = Raised("Video file not found")
                /\ pc' = [pc EXCEPT ![j] = "raised"]
                /\ UNCHANGED <<files, audio_path>>
           ELSE IF ~is_supported(src)
           THEN /\ outcome = "unsupported"
                /\ call_result' = Raised("Unsupported format")
                /\ pc' = [pc EXCEPT ![j] = "raised"]
                /\ UNCHANGED <<files, audio_path>>
           ELSE \/ /\ outcome = "ffmpegerr"
                   /\ call_result' = Raised("FFmpeg failed")
                   /\ pc' = [pc EXCEPT ![j] = "raised"]
                   /\ UNCHANGED <<files, audio_path>>
                \/ /\ outcome = "ok"
                   /\ files' = files \cup {ExtractOutput(src)}
                   /\ audio_path' = [audio_path EXCEPT ![j] = ExtractOutput(src)]
                   /\ pc' = [pc EXCEPT ![j] = "transcribe"]
                   /\ call_result' = call_result
    /\ UNCHANGED <<source_path, exc, segments, last_progress, wduration>>
    /\ UNCHANGED <<args, text, outputs, calls, progress_calls, llm_calls>>
    /\ UNCHANGED serverVars

\* transcription.py:85-89 and whisper.py:87-104  the start of
\* whisper_engine.transcribe: the model is asked for the segments and the info.
FileWhisperStart(j, ok, wd) ==
    /\ args.fn = "transcribe_file"
    /\ pc[j] = "transcribe"
    /\ IF audio_path[j] \notin files
       THEN /\ ~ok /\ wd = 0
            /\ exc' = [exc EXCEPT ![j] = "Audio file not found"]
            /\ pc' = [pc EXCEPT ![j] = "cleanup"]
            /\ UNCHANGED <<segments, last_progress, wduration>>
       ELSE IF ok
            THEN /\ segments' = [segments EXCEPT ![j] = <<>>]
                 /\ last_progress' = [last_progress EXCEPT ![j] = 0]
                 /\ wduration' = [wduration EXCEPT ![j] = wd]
                 /\ pc' = [pc EXCEPT ![j] = "whisper"]
                 /\ exc' = exc
            ELSE /\ wd = 0
                 /\ exc' = [exc EXCEPT ![j] = "transcription failed"]
                 /\ pc' = [pc EXCEPT ![j] = "cleanup"]
                 /\ UNCHANGED <<segments, last_progress, wduration>>
    /\ UNCHANGED <<files, source_path, audio_path>>
    /\ UNCHANGED callVars
    /\ UNCHANGED serverVars

\* whisper.py:116-120 with transcription.py:80-83: the engine passes p to
\* whisper_progress, which passes 10 + int(p * 0.8) to progress_callback.
FileProgress(p) ==
    /\ calls' = Append(calls, p)
    /\ progress_calls' = Append(progress_calls, FileScale(p))

\* whisper.py:106-120  one iteration of the segment loop; e is the segment's end.
FileWhisperSegment(j, e) ==
    /\ args.fn = "transcribe_file"
    /\ pc[j] = "whisper"
    /\ Len(segments[j]) < MaxSegs
    /\ segments' = [segments EXCEPT ![j] = Append(@, Segment(0, e, SegText))]
    /\ IF wduration[j] > 0 /\ Reports(LocalProgress(e, wduration[j]), last_progress[j])
       THEN /\ FileProgress(Min(LocalProgress(e, wduration[j]), 100))
            /\ last_progress' = [last_progress EXCEPT ![j] = LocalProgress(e, wduration[j])]
       ELSE UNCHANGED <<calls, progress_calls, last_progress>>
    /\ UNCHANGED <<files, pc, source_path, exc, audio_path, wduration>>
    /\ UNCHANGED <<args, text, outputs, llm_calls, call_result>>
    /\ UNCHANGED serverVars

\* whisper.py:106  the segment iterator raises (decoding is lazy).
FileWhisperFail(j) ==
    /\ args.fn = "transcribe_file"
    /\ pc[j] = "whisper"
    /\ exc' = [exc EXCEPT ![j] = "transcription failed"]
    /\ pc' = [pc EXCEPT ![j] = "cleanup"]
    /\ UNCHANGED <<files, source_path, audio_path, segments, last_progress, wduration>>
    /\ UNCHANGED callVars
    /\ UNCHANGED serverVars

\* whisper.py:122-126  progress_callback(100) and the return of the segments.
FileWhisperDone(j) ==
    /\ args.fn = "transcribe_file"
    /\ pc[j] = "whisper"
    /\ FileProgress(100)
    /\ pc' = [pc EXCEPT ![j] = "render"]
    /\ UNCHANGED <<files, source_path, exc, audio_path, segments, last_progress, wduration>>
    /\ UNCHANGED <<args, text, outputs, llm_calls, call_result>>
    /\ UNCHANGED serverVars

\* transcription.py:92-101  text = to_plain_text(segments); when enhancement
\* is asked for and available, format_text is called: its answer replaces the
\* text and the segments, and an exception from it is passed over. format_text
\* raises ValueError itself when the formatter is not available
\* (formatter.py:146-147).
FileRender(j, llmOk) ==
    /\ args.fn = "transcribe_file"
    /\ pc[j] = "render"
    /\ IF Enhances(args.use_llm, args.available)
       THEN /\ llmOk => args.available
            /\ llm_calls' = Append(llm_calls, IF llmOk THEN "returned" ELSE "raised")
            /\ IF llmOk
               THEN /\ text' = FormattedText
                    /\ segments' = [segments EXCEPT ![j] = <<Segment(0, 0, FormattedText)>>]
               ELSE /\ text' = to_plain_text(segments[j])
                    /\ segments' = segments
       ELSE /\ llmOk
            /\ text' = to_plain_text(segments[j])
            /\ UNCHANGED <<segments, llm_calls>>
    /\ pc' = [pc EXCEPT ![j] = "write"]
    /\ UNCHANGED <<files, source_path, exc, audio_path, last_progress, wduration>>
    /\ UNCHANGED <<args, outputs, calls, progress_calls, call_result>>
    /\ UNCHANGED serverVars

\* transcription.py:103-124  the artifacts are written one after the other;
\* written is the number of them written before a write raised, or all of
\* them, and then progress_callback(100) is called.
FileWrite(j, written) ==
    /\ args.fn = "transcribe_file"
    /\ pc[j] = "write"
    /\ LET todo == Artifacts(source_path[j], segments[j], args.output_format,
                             args.include_timestamps)
           done == {todo[i] : i \in 1..written}
       IN  /\ written \in 0..Len(todo)
           /\ outputs' = {o \in outputs : \A d \in done : d.path # o.path} \cup done
           /\ files' = files \cup {d.path : d \in done}
           /\ IF written < Len(todo)
              THEN /\ exc' = [exc EXCEPT ![j] = "write failed"]
                   /\ UNCHANGED progress_calls
              ELSE /\ exc' = exc
                   /\ progress_calls' = Append(progress_calls, 100)
    /\ pc' = [pc EXCEPT ![j] = "cleanup"]
    /\ UNCHANGED <<source_path, audio_path, segments, last_progress, wduration>>
    /\ UNCHANGED <<args, text, calls, llm_calls, call_result>>
    /\ UNCHANGED serverVars

\* transcription.py:128-131  the finally clause: the audio file is unlinked if
\* it exists; then the call returns (output_paths[0], text), or the exception
\* in flight, or the one unlink raised, reaches the caller.
FileCleanup(j, unlinkOk) ==
    /\ args.fn = "transcribe_file"
    /\ pc[j] = "cleanup"
    /\ IF Unlinks(audio_path[j], files)
       THEN IF unlinkOk
            THEN /\ files' = files \ {audio_path[j]}
                 /\ call_result' =
                      IF exc[j] # None THEN Raised(exc[j])
                      ELSE Returned([path |-> Artifacts(source_path[j], segments[j],
                                                args.output_format,
                                                args.include_timestamps)[1].path,
                                     text |-> text])
            ELSE /\ files' = files
                 /\ call_result' = Raised("unlink failed")
       ELSE /\ unlinkOk
            /\ files' = files
            /\ call_result' =
                 IF exc[j] # None THEN Raised(exc[j])
                 ELSE Returned([path |-> Artifacts(source_path[j], segments[j],
                                           args.output_format,
                                           args.include_timestamps)[1].path,
                                text |-> text])
    /\ pc' = [pc EXCEPT ![j] = IF call_result'.kind = "raised" THEN "raised" ELSE "returned"]
    /\ UNCHANGED <<source_path, exc, audio_path, segments, last_progress, wduration>>
    /\ UNCHANGED <<args, text, outputs, calls, progress_calls, llm_calls>>
    /\ UNCHANGED serverVars

\* ------------------------------------------------------------------ calls of pure functions
\* The closure args.fn is called with the local progress args.p.
Scale(j) ==
    /\ args.fn \in ScaleFns
    /\ pc[j] = "call"
    /\ call_result' = Returned(Scaled(args.fn, args.p))
    /\ pc' = [pc EXCEPT ![j] = "returned"]
    /\ UNCHANGED <<files, source_path, exc, audio_path, segments, last_progress, wduration>>
    /\ UNCHANGED <<args, text, outputs, calls, progress_calls, llm_calls>>
    /\ UNCHANGED serverVars

\* The closure is called again, with a local progress q that is not lower.
ScaleNext(j, q) ==
    /\ args.fn \in ScaleFns
    /\ pc[j] = "returned"
    /\ q >= args.p
    /\ args' = [args EXCEPT !.p = q]
    /\ call_result' = Returned(Scaled(args.fn, q))
    /\ UNCHANGED <<files, pc, source_path, exc, audio_path, segments, last_progress, wduration>>
    /\ UNCHANGED <<text, outputs, calls, progress_calls, llm_calls>>
    /\ UNCHANGED serverVars

\* youtube.py:128  _sanitize_filename(title)
Sanitize(j) ==
    /\ args.fn = "_sanitize_filename"
    /\ pc[j] = "call"
    /\ call_result' = Returned(sanitize_filename(args.name))
    /\ pc' = [pc EXCEPT ![j] = "returned"]
    /\ UNCHANGED <<files, source_path, exc, audio_path, segments, last_progress, wduration>>
    /\ UNCHANGED <<args, text, outputs, calls, progress_calls, llm_calls>>
    /\ UNCHANGED serverVars

\* A call of one of the two time formatters.
FormatTime(j) ==
    /\ args.fn \in {"format_time_md", "format_time_srt"}
    /\ pc[j] = "call"
    /\ call_result' = Returned(
           IF args.fn = "format_time_md"
           THEN format_time_md(args.seconds) ELSE format_time_srt(args.seconds))
    /\ pc' = [pc EXCEPT ![j] = "returned"]
    /\ UNCHANGED <<files, source_path, exc, audio_path, segments, last_progress, wduration>>
    /\ UNCHANGED <<args, text, outputs, calls, progress_calls, llm_calls>>
    /\ UNCHANGED serverVars

\* A call of one of the three formatter methods.
Format(j) ==
    /\ args.fn \in {"to_markdown", "to_srt", "to_plain_text"}
    /\ pc[j] = "call"
    /\ call_result' = Returned(
           CASE args.fn = "to_markdown" ->
                    to_markdown(args.segments, args.include_timestamps, args.title)
             [] args.fn = "to_srt" -> to_srt(args.segments)
             [] args.fn = "to_plain_text" -> to_plain_text(args.segments))
    /\ pc' = [pc EXCEPT ![j] = "returned"]
    /\ UNCHANGED <<files, source_path, exc, audio_path, segments, last_progress, wduration>>
    /\ UNCHANGED <<args, text, outputs, calls, progress_calls, llm_calls>>
    /\ UNCHANGED serverVars

\* ------------------------------------------------------------------ the arguments
\* The longest name is MaxRepeat copies of a chunk of one or two characters.
MaxRepeat == 203

Repeat(chunk, n) == [i \in 1..(n * Len(chunk)) |-> chunk[((i - 1) % Len(chunk)) + 1]]

Chunks ==
    {<<c>> : c \in InvalidChars \cup {"a", " "}}
        \cup {<<"a", c>> : c \in InvalidChars} \cup {<<c, "a">> : c \in InvalidChars}

Names == {Repeat(chunk, n) : chunk \in Chunks, n \in 0..MaxRepeat}

\* Segment start times: 0 s, 59.875 s and 1 h 2 min 5.875 s.
StartTimes == {0, 479, 29807}
\* Segment texts: unterminated, terminated, and terminated before a space.
Texts == {<<"a">>, <<"b", ".">>, <<"c", "!", " ">>}
Titles == {<<>>, <<"t">>}

SegmentSeqs(n) == UNION {[1..k -> [start : StartTimes, end : SegEnds, text : Texts]] : k \in 0..n}

FileArgs ==
    [fn : {"transcribe_file"}, exists : BOOLEAN, ext : UploadExts,
     output_format : OutputFormats, include_timestamps : BOOLEAN,
     use_llm : BOOLEAN, available : BOOLEAN]

ScaleArgs == [fn : ScaleFns, p : 0..100]

SanitizeArgs == [fn : {"_sanitize_filename"}, name : Names]

\* Whole seconds at the ends of the minute, the hour, the day, and 100 hours;
\* each with a fraction of 0, 1/8 or 7/8 of a second.
WholeSeconds == {0, 1, 9, 10, 59, 60, 61, 599, 600, 3599, 3600, 3601, 3725, 35999, 36000,
                 86399, 86400, 359999, 360000}

TimeArgs ==
    [fn : {"format_time_md", "format_time_srt"},
     seconds : {s * TicksPerSecond + f : s \in WholeSeconds, f \in {0, 1, 7}}]

FormatArgs ==
    [fn : {"to_markdown"}, segments : SegmentSeqs(MaxSegs),
     include_timestamps : BOOLEAN, title : Titles]
        \cup [fn : {"to_srt", "to_plain_text"}, segments : SegmentSeqs(MaxSegs)]

\* One direct call of a function of the package, with arguments drawn from the
\* sets above; nothing of the server exists.
InitCall ==
    /\ args \in FileArgs \cup ScaleArgs \cup SanitizeArgs \cup FormatArgs \cup TimeArgs
    /\ files = IF args.fn = "transcribe_file" /\ args.exists
               THEN {SourceFile(args.ext)} ELSE {}
    /\ source_path = [j \in Jobs |->
                        IF j \in Solo /\ args.fn = "transcribe_file"
                        THEN SourceFile(args.ext) ELSE NoPath]
    /\ pc = [j \in Jobs |-> IF j \in Solo THEN "call" ELSE "none"]
    /\ db = [j \in Jobs |-> NoRow]
    /\ progress_store = [j \in Jobs |-> NoSnap]
    /\ nextId = 1
    /\ source_type = [j \in Jobs |-> None]
    /\ youtube_url = [j \in Jobs |-> NoUrl]
    /\ title = [j \in Jobs |-> None]
    /\ svc = [j \in Jobs |-> FALSE]
    /\ exc = [j \in Jobs |-> None]
    /\ escaping = [j \in Jobs |-> FALSE]
    /\ obj = [j \in Jobs |-> NoRow]
    /\ audio_path = [j \in Jobs |-> NoPath]
    /\ segments = [j \in Jobs |-> <<>>]
    /\ last_progress = [j \in Jobs |-> 0]
    /\ wduration = [j \in Jobs |-> 0]
    /\ reported = [j \in Jobs |-> -1]
    /\ sub_pc = [j \in Jobs |-> "off"]
    /\ sub_last = [j \in Jobs |-> -1]
    /\ events = [j \in Jobs |-> <<>>]
    /\ deleted = [j \in Jobs |-> FALSE]
    /\ response = NoResponse
    /\ text = <<>>
    /\ outputs = {}
    /\ calls = <<>>
    /\ progress_calls = <<>>
    /\ llm_calls = <<>>
    /\ call_result = NoResult

NextCall ==
    \/ \E j \in Solo : FileStart(j)
    \/ \E j \in Solo, outcome \in {"missing", "unsupported", "ffmpegerr", "ok"} :
          FileExtract(j, outcome)
    \/ \E j \in Solo, ok \in BOOLEAN, wd \in WhisperDurations : FileWhisperStart(j, ok, wd)
    \/ \E j \in Solo, e \in SegEnds : FileWhisperSegment(j, e)
    \/ \E j \in Solo : FileWhisperFail(j)
    \/ \E j \in Solo : FileWhisperDone(j)
    \/ \E j \in Solo, llmOk \in BOOLEAN : FileRender(j, llmOk)
    \/ \E j \in Solo, written \in 0..2 : FileWrite(j, written)
    \/ \E j \in Solo, unlinkOk \in BOOLEAN : FileCleanup(j, unlinkOk)
    \/ \E j \in Solo, q \in 0..100 : ScaleNext(j, q)
    \/ \E j \in Solo : Scale(j)
    \/ \E j \in Solo : Sanitize(j)
    \/ \E j \in Solo : Format(j)
    \/ \E j \in Solo : FormatTime(j)

SpecCall == InitCall /\ [][NextCall]_vars

\* ------------------------------------------------------------------ claims

\* The result fields of a row hold something / the row carries an error message.
ResultPresent(r) == r.text # <<>> \/ r.segments # <<>>
ErrorPresent(r) == r.error_message # None /\ r.error_message # ""

\* C1: once a job's row status or its snapshot status is completed or failed, no
\* step gives it another status.
C1_TerminalStatusIsFinal ==
    [][\A j \in Jobs :
         /\ (Present(db[j]) /\ Present(db'[j]) /\ db[j].status \in Terminal)
               => db'[j].status = db[j].status
         /\ (Present(progress_store[j]) /\ Present(progress_store'[j])
               /\ progress_store[j].status \in Terminal)
               => progress_store'[j].status = progress_store[j].status]_vars

\* C2: over every step that leaves the job non-terminal, the progress of the
\* job does not decrease: in the snapshot, in the row of the registry and in the
\* row object of the running pipeline.
C2_ProgressMonotoneWhileNonTerminal ==
    [][\A j \in Jobs :
         /\ (Present(progress_store[j]) /\ Present(progress_store'[j])
               /\ progress_store[j].status \notin Terminal
               /\ progress_store'[j].status \notin Terminal)
               => progress_store'[j].progress >= progress_store[j].progress
         /\ (Present(obj[j]) /\ Present(obj'[j])
               /\ obj[j].status \notin Terminal /\ obj'[j].status \notin Terminal)
               => obj'[j].progress >= obj[j].progress
         /\ (Present(db[j]) /\ Present(db'[j])
               /\ db[j].status \notin Terminal /\ db'[j].status \notin Terminal)
               => db'[j].progress >= db[j].progress]_vars

\* C2 witness: the transcription callback has raised the progress of a running job.
C2_Witness ==
    \E j \in Jobs :
        /\ pc[j] = "whisper"
        /\ Present(obj[j]) /\ obj[j].progress > 10
        /\ Present(progress_store[j]) /\ progress_store[j].status = PROCESSING
        /\ progress_store[j].progress = obj[j].progress
        /\ Len(segments[j]) = 2

\* C3: every snapshot written for a job carries a progress no lower than the
\* snapshot it replaces, the failed snapshots included.
C3_PublishedProgressMonotone ==
    [][\A j \in Jobs :
         (Present(progress_store[j]) /\ Present(progress_store'[j]))
            => progress_store'[j].progress >= progress_store[j].progress]_vars

\* C4: a row with status failed carries an error message and the progress last
\* reported before the failure.
C4_FailedKeepsLastProgress ==
    \A j \in Jobs :
        (Present(db[j]) /\ db[j].status = FAILED)
            => ErrorPresent(db[j]) /\ db[j].progress = reported[j]

\* C5: a row with status pending changes its status to processing only.
C5_PendingOnlyToProcessing ==
    [][\A j \in Jobs :
         (Present(db[j]) /\ Present(db'[j]) /\ db[j].status = PENDING)
            => db'[j].status \in {PENDING, PROCESSING}]_vars

\* C6: no row of the registry holds a result and an error together, and a row
\* that is pending or processing holds neither.
C6_ResultErrorExclusive ==
    \A j \in Jobs :
        Present(db[j]) =>
            /\ ~(ResultPresent(db[j]) /\ ErrorPresent(db[j]))
            /\ db[j].status \in {PENDING, PROCESSING}
                  => ~ResultPresent(db[j]) /\ ~ErrorPresent(db[j])

\* C6 witness: the task has returned and the registry holds the completed row
\* with its result and no error message.
C6_Witness ==
    \E j \in Jobs :
        /\ Present(db[j]) /\ db[j].status = COMPLETED
        /\ ResultPresent(db[j]) /\ ~ErrorPresent(db[j])
        /\ pc[j] = "returned"

\* C7: progress is an integer in 0..100 everywhere, and status completed comes
\* with progress 100 and the transcription's result: in the registry, in the
\* pipeline's row object and in the snapshot.
C7_ProgressRangeAndCompleted ==
    \A j \in Jobs :
        /\ Present(db[j]) =>
              /\ db[j].progress \in 0..100
              /\ db[j].status = COMPLETED =>
                    /\ db[j].progress = 100
                    /\ db[j].text = to_plain_text(db[j].segments)
        /\ Present(obj[j]) =>
              /\ obj[j].progress \in 0..100
              /\ obj[j].status = COMPLETED =>
                    /\ obj[j].progress = 100
                    /\ obj[j].segments = segments[j]
                    /\ obj[j].text = to_plain_text(segments[j])
        /\ Present(progress_store[j]) =>
              /\ progress_store[j].progress \in 0..100
              /\ progress_store[j].status = COMPLETED => progress_store[j].progress = 100

\* C7 witness: a job completed in the registry and in the snapshot, with a
\* result of two segments.
C7_Witness ==
    \E j \in Jobs :
        /\ Present(db[j]) /\ db[j].status = COMPLETED /\ Len(db[j].segments) = 2
        /\ Present(progress_store[j]) /\ progress_store[j].status = COMPLETED

\* C8: no exception leaves the background task, and a task that handled a
\* failure leaves its row failed with an error message.
C8_NoExceptionEscapes ==
    \A j \in Jobs :
        /\ pc[j] # "raised"
        /\ (pc[j] = "handled" /\ Present(db[j]))
              => db[j].status = FAILED /\ ErrorPresent(db[j])

\* C9: once process_transcription has been left, the audio file that its
\* extract_audio call created does not exist.
C9_TempAudioRemoved ==
    \A j \in Jobs :
        (pc[j] \in {"handler", "mark", "finally"} /\ Present(audio_path[j]))
            => audio_path[j] \notin files

\* C10: once the task of a remote-URL job has ended, no file that its download
\* left in the temporary directory exists.
C10_DownloadRemoved ==
    \A j \in Jobs :
        (pc[j] \in {"returned", "handled", "raised"} /\ source_type[j] = "youtube")
            => \A e \in RawExts \cup {"wav"} :
                   Path("temp", extract_video_id(youtube_url[j]), e) \notin files

\* The submission of job j was accepted: its row was committed and its task queued.
Accepted(j) == pc[j] \notin {"none", "creating", "rejected"}

\* C11: under fair scheduling, a stream subscribed to an accepted job emits a
\* terminal snapshot and ends.
C11_StreamTerminates ==
    \A j \in Jobs :
        (sub_pc[j] = "on" /\ Accepted(j))
            ~> (sub_pc[j] = "done" /\ events[j] # <<>>
                  /\ events[j][Len(events[j])].status \in Terminal)

\* C14: in the events of a stream, an event whose progress equals the progress
\* of the event before it has a terminal status; and a polling stream whose
\* job's snapshot is terminal emits it, whatever the progress it saw last.
C14_NoDuplicateUnlessTerminal ==
    \A j \in Jobs :
        /\ \A i \in 1..(Len(events[j]) - 1) :
              events[j][i + 1].progress = events[j][i].progress
                 => events[j][i + 1].status \in Terminal
        /\ (sub_pc[j] = "on" /\ Present(progress_store[j])
               /\ progress_store[j].status \in Terminal)
              => Emits(progress_store[j], sub_last[j])

\* C14 witness: a stream emitted a terminal snapshot with the progress of the
\* event before it.
C14_Witness ==
    \E j \in Jobs : \E i \in 1..(Len(events[j]) - 1) :
        /\ events[j][i + 1].progress = events[j][i].progress
        /\ events[j][i + 1].status \in Terminal
        /\ events[j][i].status \notin Terminal

\* C15: a stream emits at most one terminal event, that event is its last, and
\* the stream has ended with it (an ended stream takes no step).
C15_TerminalEventIsLast ==
    \A j \in Jobs :
        /\ \A i \in 1..Len(events[j]) :
              events[j][i].status \in Terminal
                 => i = Len(events[j]) /\ sub_pc[j] = "done"
        /\ sub_pc[j] = "done" =>
              events[j] # <<>> /\ events[j][Len(events[j])].status \in Terminal

\* C15 witness: a stream ended on the completed snapshot, and the job's
\* snapshot changed afterwards without another event.
C15_Witness ==
    \E j \in Jobs :
        /\ sub_pc[j] = "done"
        /\ Len(events[j]) >= 2
        /\ events[j][Len(events[j])].status = COMPLETED
        /\ Present(progress_store[j])
        /\ progress_store[j].status = FAILED

\* C12: once a delete of a job id has returned success, the registry holds no
\* row and the progress store no snapshot for that id.
C12_DeletedStaysDeleted ==
    \A j \in Jobs :
        deleted[j] => ~Present(db[j]) /\ ~Present(progress_store[j])

\* The temporary files job k still reads: its source until the duration probe
\* is over, its extracted audio until the transcription is.
InUse(k) ==
    {f \in {source_path[k]} : Present(f) /\ pc[k] \in {"rename", "check", "begin", "extract", "probe"}}
      \cup {f \in {audio_path[k]} : Present(f) /\ pc[k] \in {"probe", "transcribe", "whisper"}}

\* C13: a step that is not job k's own (k's position and segment list stay as
\* they are) changes neither k's row, k's session object nor k's snapshot, and
\* removes no temporary file that k still reads.
C13_JobsIsolated ==
    [][\A k \in Jobs :
         (pc'[k] = pc[k] /\ segments'[k] = segments[k]) =>
            /\ db'[k] = db[k]
            /\ obj'[k] = obj[k]
            /\ progress_store'[k] = progress_store[k]
            /\ \A f \in InUse(k) : f \in files => f \in files']_vars

\* The step completes a request of kind op with status code c.
Answers(op, c) == response' # response /\ response'.op = op /\ response'.code = c

\* C16: the step that answers a submission with success leaves the job's row
\* committed with status pending and progress 0 and its snapshot at
\* {progress 0, status pending}, answers with the id, status pending and
\* progress 0, and no step of the job's task has run yet.
C16_AcceptedIsPending ==
    [][\A j \in Jobs :
         (Answers("create", 200) /\ response'.id = j) =>
            /\ Present(db'[j]) /\ db'[j].status = PENDING /\ db'[j].progress = 0
            /\ progress_store'[j] = Snap(0, PENDING, None)
            /\ response'.body = [status |-> PENDING, progress |-> 0]
            /\ pc[j] = "creating" /\ pc'[j] = "start"
            /\ ~Present(source_path'[j]) \/ source_path'[j] = UploadPath(j, source_path'[j].ext)
            /\ ~Present(audio_path'[j])]_vars

\* C16 witness: a submission has just been answered with success, and the
\* job's task has not taken a step.
C16_Witness ==
    \E j \in Jobs :
        /\ response = Response("create", j, 200, [status |-> PENDING, progress |-> 0])
        /\ pc[j] = "start"
        /\ Present(db[j]) /\ db[j].status = PENDING
        /\ progress_store[j] = Snap(0, PENDING, None)

\* C17: the step that rejects a submission with neither file nor URL changes
\* nothing: no row, no snapshot, no file, no id used, no task position.
C17_RejectedLeavesNothing ==
    [][Answers("create", 400) =>
          UNCHANGED <<db, progress_store, files, nextId, pc, obj>>]_vars

\* C17 witness: a submission was rejected while the registry and the progress
\* store were empty, and they still are.
C17_Witness ==
    /\ response = Response("create", 0, 400, NoBody)
    /\ \A j \in Jobs : ~Present(db[j]) /\ ~Present(progress_store[j]) /\ pc[j] = "none"

\* C18: a delete of an id the registry does not hold is answered 404 and
\* changes neither the registry nor the progress store; a delete of an id it
\* holds is never answered 404; and after a successful delete of an id the
\* registry does not hold it, so every later delete of it is of the first kind.
C18_DeleteIdempotent ==
    [][\A j \in Jobs :
         /\ (response' # response /\ response'.op = "delete" /\ response'.id = j) =>
                IF Present(db[j])
                THEN response'.code \in {200, 500}
                ELSE response'.code = 404 /\ UNCHANGED stateVars
         /\ deleted[j] => ~Present(db[j]) /\ ~Present(db'[j])]_vars

\* C18 witness: an id deleted with success was deleted again and answered 404.
C18_Witness ==
    \E j \in Jobs :
        /\ deleted[j]
        /\ response = Response("delete", j, 404, NoBody)

\* C19: a download is answered with an artifact exactly when the committed row
\* of the id has status completed, with 404 when the registry holds no such
\* row and with 400 for every other status; and a download changes no state.
C19_DownloadOnlyCompleted ==
    [][\A j \in Jobs :
         (response' # response /\ response'.op = "download" /\ response'.id = j) =>
            /\ UNCHANGED stateVars
            /\ response'.code = 200 <=> (Present(db[j]) /\ db[j].status = COMPLETED)
            /\ response'.code = 404 <=> ~Present(db[j])
            /\ response'.code = 400 <=> (Present(db[j]) /\ db[j].status \in {PENDING, PROCESSING, FAILED})
            /\ response'.code = 200 <=> Present(response'.body)]_vars

\* C19 witness: a download for a failed job was answered 400.
C19_Witness ==
    \E j \in Jobs :
        /\ response = Response("download", j, 400, NoBody)
        /\ Present(db[j]) /\ db[j].status = FAILED

C26_InvalidLocatorFailsFirst ==
    [][\A j \in Solo :
         (pc[j] = "download" /\ ~youtube_url[j].valid /\ pc'[j] # pc[j])
            => /\ exc'[j] = "Invalid YouTube URL"
               /\ files' = files
               /\ source_path'[j] = source_path[j]
               /\ title'[j] = title[j]]_vars

\* download() has raised the invalid-source error for a remote-URL job.
C26_Witness ==
    \E j \in Solo :
        /\ pc[j] = "handler"
        /\ source_type[j] = "youtube"
        /\ ~youtube_url[j].valid
        /\ exc[j] = "Invalid YouTube URL"

\* ------------------------------------------------------------------ C30
\* The errors that WhisperEngine.transcribe raises (whisper.py:87-88 and the
\* model's transcribe call and segment iterator): a failure in the
\* transcription stage.
TranscriptionErrors == {"Audio file not found", "transcription failed"}

\* C30: a server job that fails during the transcription stage keeps the
\* duration_seconds recorded after audio extraction: when the failure handling
\* leaves process_transcription (the rollback of its session) the job record
\* holds the value the session's row held, and marking the job failed leaves
\* the record's duration_seconds as it was.
C30_FailureKeepsDuration ==
    [][\A j \in Solo :
         /\ (/\ pc[j] = "rollback" /\ pc'[j] = "handler"
             /\ Present(obj[j]) /\ obj[j].error_message \in TranscriptionErrors
             /\ Present(db'[j]))
                => db'[j].duration_seconds = obj[j].duration_seconds
         /\ (pc[j] = "mark" /\ pc'[j] = "finally" /\ Present(db[j]) /\ Present(db'[j]))
                => db'[j].duration_seconds = db[j].duration_seconds]_vars

\* ------------------------------------------------------------------ C28
\* C28: a pipeline that runs the transcription stage publishes, for the local
\* progress p the engine reports, 10 + floor(p * weight / 100) with the weight
\* of the stage table: 80 for a local file and 90 for a remote URL. Stated for
\* the server pipeline: p is the value WhisperEngine.transcribe passes to the
\* callback for the segment just read, or 100 at the end of the loop.
C28_StageTableBands ==
    [][\A j \in Solo :
         LET weight == IF source_type[j] = "file" THEN 80 ELSE 90
         IN  /\ (/\ pc[j] = "whisper" /\ pc'[j] = "whisper"
                 /\ Len(segments'[j]) > Len(segments[j])
                 /\ progress_store'[j] # progress_store[j])
                    => LET e == segments'[j][Len(segments'[j])].end
                           p == Min(LocalProgress(e, wduration[j]), 100)
                       IN  progress_store'[j].progress = 10 + ((p * weight) \div 100)
             /\ (pc[j] = "whisper" /\ pc'[j] = "finish")
                    => progress_store'[j].progress = 10 + ((100 * weight) \div 100)]_vars

\* ------------------------------------------------------------------ C21
\* C21: for each band (offset, weight) the pipelines' closures use and every
\* non-decreasing sequence of integer local progress values in 0..100, every
\* scaled value lies within [offset, offset + weight], and the value scaled
\* from a local value that is not lower than the one before is not lower
\* than the value scaled before.
C21_ScaledMonotoneWithinBand ==
    [][(args'.fn \in ScaleFns /\ call_result'.kind = "returned")
          => /\ call_result'.value >= Band(args'.fn).offset
             /\ call_result'.value <= Band(args'.fn).offset + Band(args'.fn).weight
             /\ (call_result.kind = "returned" /\ args'.p >= args.p)
                    => call_result'.value >= call_result.value]_vars

\* The closure of transcribe_file has scaled the local value 100: the result
\* is the upper end of its band.
C21_Witness ==
    /\ args.fn = "transcribe_file.whisper_progress"
    /\ args.p = 100
    /\ call_result = Returned(90)

\* ------------------------------------------------------------------ C22
\* C22: transcribe_file called with a path that does not exist raises the
\* not-found error before it calls the progress callback, extracts audio,
\* creates the output directory or writes any file: the call is either still
\* to start or has raised that error, and nothing else has happened.
C22_MissingFileFailsFirst ==
    \A j \in Solo :
        (args.fn = "transcribe_file" /\ ~args.exists)
            => /\ pc[j] \in {"call", "raised"}
               /\ pc[j] = "raised" => call_result = Raised("File not found")
               /\ progress_calls = <<>>
               /\ audio_path[j] = NoPath
               /\ files = {}
               /\ outputs = {}

\* The call with a missing path has raised.
C22_Witness ==
    \E j \in Solo :
        /\ args.fn = "transcribe_file"
        /\ ~args.exists
        /\ pc[j] = "raised"
        /\ call_result = Raised("File not found")

\* ------------------------------------------------------------------ C23
\* C23: in transcribe_file the text-enhancement collaborator is called only
\* when enhancement is requested and the collaborator is available; a call of
\* it that raises leaves the text, the segments and the course of the pipeline
\* as they are without enhancement, and the call then returns the plain text
\* of the engine's segments and has written the artifacts rendered from them,
\* which is what a call without enhancement returns and writes.
C23_EnhancementOptionalAndHarmless ==
    [][\A j \in Solo :
         /\ llm_calls' # llm_calls => (args.use_llm /\ args.available)
         /\ (llm_calls' # llm_calls /\ llm_calls'[Len(llm_calls')] = "raised")
                => /\ segments' = segments
                   /\ text' = to_plain_text(segments[j])
                   /\ exc' = exc
                   /\ pc'[j] = "write"
                   /\ files' = files /\ outputs' = outputs
         /\ (/\ args.fn = "transcribe_file"
             /\ pc[j] # "returned" /\ pc'[j] = "returned"
             /\ llm_calls' \in {<<>>, <<"raised">>})
                => LET plain == Artifacts(source_path[j], segments'[j],
                                          args.output_format, args.include_timestamps)
                   IN  /\ call_result'.value.text = to_plain_text(segments'[j])
                       /\ call_result'.value.path = plain[1].path
                       /\ outputs' = {plain[i] : i \in 1..Len(plain)}]_vars

\* A call whose enhancement raised has returned, with segments to render.
C23_Witness ==
    \E j \in Solo :
        /\ args.fn = "transcribe_file"
        /\ args.use_llm
        /\ llm_calls = <<"raised">>
        /\ pc[j] = "returned"
        /\ Len(segments[j]) = MaxSegs
        /\ call_result.value.text = to_plain_text(segments[j])

C27_CallbackStrictlyIncreasing ==
    \A i \in 1..(Len(calls) - 1) : calls[i] < calls[i + 1]

\* ------------------------------------------------------------------ C24
\* C24: to_markdown, to_srt and to_plain_text each return the empty string for
\* an empty segment sequence, whatever include_timestamps and title are.
C24_EmptyGivesEmpty ==
    (/\ args.fn \in {"to_markdown", "to_srt", "to_plain_text"}
     /\ args.segments = <<>>
     /\ call_result.kind = "returned")
        => call_result.value = <<>>

\* ------------------------------------------------------------------ C25
\* C25: _sanitize_filename removes every occurrence of < > : " / \ | ? * and
\* cuts the result to its first 200 characters: the returned name holds none
\* of those characters, is the beginning of the name without them, and its
\* length is the smaller of 200 and the length after removal.
C25_SanitizedName ==
    (args.fn = "_sanitize_filename" /\ call_result.kind = "returned")
        => LET kept == SelectSeq(args.name, IsValidChar)
               name == call_result.value
           IN  /\ \A i \in 1..Len(name) : name[i] \notin InvalidChars
               /\ Len(name) = Min(200, Len(kept))
               /\ name = SubSeq(kept, 1, Len(name))

\* A name of more than 200 characters after removal, with characters to
\* remove, has been cut to 200.
C25_Witness ==
    /\ args.fn = "_sanitize_filename"
    /\ call_result.kind = "returned"
    /\ \E i \in 1..Len(args.name) : args.name[i] \in InvalidChars
    /\ Len(SelectSeq(args.name, IsValidChar)) > 200
    /\ Len(call_result.value) = 200

\* ------------------------------------------------------------------ C31
\* C31: the source locator stored in the job record at submission (the
\* uploaded file name or the remote URL) is unchanged in every later state of
\* the job: no step changes the source_name of a record that exists.
C31_LocatorRetained ==
    [][\A j \in Solo :
         (Present(db[j]) /\ Present(db'[j]))
            => db'[j].source_name = db[j].source_name]_vars

ReadStep ==
    \/ \E j \in Jobs : GetTranscription(j)
    \/ \E limit \in Limits : \E result \in list_transcriptions(db, limit) :
          ListTranscriptions(limit, result)
    \/ \E j \in Jobs, fmt \in Formats : DownloadTranscription(j, fmt)
    \/ \E j \in Jobs : Subscribe(j)
    \/ \E j \in Jobs : Poll(j)

\* The step changes status, progress, result or error of the record of job j.
RecordWritten(j) ==
    /\ Present(db[j])
    /\ Present(db'[j])
    /\ <<db[j].status, db[j].progress, db[j].text, db[j].segments, db[j].error_message>>
         # <<db'[j].status, db'[j].progress, db'[j].text, db'[j].segments,
             db'[j].error_message>>

\* A step of the background task of job j.
PipelineStep(j) == pc[j] \notin {"none", "creating", "rejected"} /\ TaskStep(j)

\* C33: a read-side step leaves every record and the whole progress store as
\* they were (a step that changes one of them is no read-side step), and a step that changes status, progress, result or error of a
\* record is a step of the pipeline of that job.
C33_ReadsWriteNothing ==
    [][/\ (~ UNCHANGED <<db, progress_store>>) => ~ReadStep
       /\ \A j \in Jobs : RecordWritten(j) => PipelineStep(j)]_vars

\* The list is answered after the first job completed and its stream ended,
\* while the record of the second job is still pending.
C33_Witness ==
    /\ response # NoResponse
    /\ response.op = "list"
    /\ Present(db[1])
    /\ db[1].status = COMPLETED
    /\ sub_pc[1] = "done"
    /\ Present(db[2])
    /\ db[2].status = PENDING

\* C38: whenever the published snapshot of a job has status completed, the
\* committed record of the job has status completed: a query answers completed
\* and a download is accepted.
C38_CompletedSnapshotIsCommitted ==
    \A j \in Solo :
        (Present(progress_store[j]) /\ progress_store[j].status = COMPLETED)
            => /\ Present(db[j])
               /\ to_dict(j, db[j]).status = COMPLETED
               /\ DownloadCode(db[j]) = 200

\* C39: every event with status failed that a stream emitted carries an error
\* message that is not empty.
C39_FailedEventHasError ==
    \A j \in Solo :
        \A i \in 1..Len(events[j]) :
            events[j][i].status = FAILED => events[j][i].error \notin {None, "", <<>>}

\* C40: under fair scheduling, the record of an accepted job that is never
\* deleted eventually has status completed or failed.
C40_EveryJobSettles ==
    \A j \in Solo :
        (Accepted(j) /\ Present(db[j]))
            ~> (~Present(db[j]) \/ db[j].status \in Terminal)

\* The text ends a sentence: its last character that is not whitespace is a
\* full stop, an exclamation mark, a question mark or the ideographic full stop.
Terminates(t) ==
    \E k \in 1..Len(t) :
        /\ t[k] \in {".", "!", "?", "U+3002"}
        /\ \A m \in (k + 1)..Len(t) : IsSpace(t[m])

\* The heading of a document with the title t, and nothing for no title.
Heading(t) == IF t = <<>> THEN <<>> ELSE <<"#", " ">> \o t \o <<"\n", "\n">>

\* n as two digits or more, and the clock of a whole number of seconds s.
TwoDigits(n) == IF n < 10 THEN <<"0", Digit(n)>> ELSE Str(n)
Clock(s, withHours) ==
    (IF withHours THEN TwoDigits(s \div 3600) \o <<":">> ELSE <<>>)
        \o TwoDigits((s % 3600) \div 60) \o <<":">> \o TwoDigits(s % 60)

\* The call of the direct-call specification returned from function fn.
ReturnedFrom(fn) == args.fn = fn /\ call_result.kind = "returned"

\* C34: the document to_markdown returns without timestamps is, between the
\* heading and up to whitespace at its two ends, the segment texts in input
\* order, each once: a text is followed by a blank line when it ends a sentence
\* or is the last one, and by a single space otherwise.
C34_ParagraphsBySentence ==
    (ReturnedFrom("to_markdown") /\ ~args.include_timestamps) =>
        LET segs == args.segments
            n == Len(segs)
        IN  call_result.value =
                Strip(Heading(args.title) \o
                      ConcatAll([i \in 1..n |->
                          segs[i].text \o
                              (IF Terminates(segs[i].text) \/ i = n
                               THEN <<"\n", "\n">> ELSE <<" ">>)]))

\* Two paragraphs: the first text ends a sentence before a trailing space, the
\* second one is unterminated and flushed at the end.
C34_Witness ==
    /\ ReturnedFrom("to_markdown")
    /\ ~args.include_timestamps
    /\ args.title = <<>>
    /\ Len(args.segments) = 2
    /\ args.segments[1].text = <<"c", "!", " ">>
    /\ args.segments[2].text = <<"a">>
    /\ call_result.value = <<"c", "!", " ", "\n", "\n", "a">>

\* C35: the document to_markdown returns with timestamps is, between the
\* heading and up to whitespace at its two ends, one line **[t]** text per
\* segment in input order, each followed by a blank line, where t is the clock
\* of the start time with the fraction of a second cut off, and has hours only
\* from one hour on.
C35_OneStampedLinePerSegment ==
    (ReturnedFrom("to_markdown") /\ args.include_timestamps) =>
        LET segs == args.segments
        IN  call_result.value =
                Strip(Heading(args.title) \o
                      ConcatAll([i \in 1..Len(segs) |->
                          LET s == segs[i].start \div TicksPerSecond
                          IN  <<"*", "*", "[">> \o Clock(s, s >= 3600)
                                  \o <<"]", "*", "*", " ">> \o segs[i].text
                                  \o <<"\n", "\n">>]))

\* Two stamped lines: 59.875 s is stamped 00:59 and 1 h 2 min 5.875 s 01:02:05.
C35_Witness ==
    /\ ReturnedFrom("to_markdown")
    /\ args.include_timestamps
    /\ args.title = <<>>
    /\ Len(args.segments) = 2
    /\ args.segments[1].start = 479
    /\ args.segments[2].start = 29807
    /\ args.segments[1].text = <<"a">>
    /\ args.segments[2].text = <<"b", ".">>
    /\ call_result.value =
         <<"*", "*", "[", "0", "0", ":", "5", "9", "]", "*", "*", " ", "a", "\n", "\n",
           "*", "*", "[", "0", "1", ":", "0", "2", ":", "0", "5", "]", "*", "*", " ",
           "b", ".">>

\* The lines of a text: the pieces between its line feeds.
LineEnds(s) == {k \in 1..Len(s) : s[k] = "\n"}
LineCount(s) == Cardinality(LineEnds(s)) + 1
LineOf(s, k) ==
    LET before == {e \in LineEnds(s) \cup {0} : Cardinality({x \in LineEnds(s) : x <= e}) = k - 1}
        first == (CHOOSE e \in before : TRUE) + 1
        after == {e \in LineEnds(s) : e >= first}
        last == IF after = {} THEN Len(s)
                ELSE (CHOOSE e \in after : \A x \in after : e <= x) - 1
    IN  SubSeq(s, first, last)

\* C36: the text to_srt returns has four lines per segment, in input order: for
\* the i-th segment the number i, the line 'start --> end' in the format of
\* format_time_srt, the segment text, and an empty line; nothing else follows.
C36_OneCuePerSegment ==
    ReturnedFrom("to_srt") =>
        LET segs == args.segments
            n == Len(segs)
            out == call_result.value
        IN  /\ n = 0 => out = <<>>
            /\ n > 0 =>
                 /\ LineCount(out) = 4 * n
                 /\ \A i \in 1..n :
                      /\ LineOf(out, 4 * i - 3) = Str(i)
                      /\ LineOf(out, 4 * i - 2) =
                           format_time_srt(segs[i].start) \o <<" ", "-", "-", ">", " ">>
                               \o format_time_srt(segs[i].end)
                      /\ LineOf(out, 4 * i - 1) = segs[i].text
                      /\ LineOf(out, 4 * i) = <<>>

\* Two cues, numbered 1 and 2.
C36_Witness ==
    /\ ReturnedFrom("to_srt")
    /\ Len(args.segments) = 2
    /\ args.segments[1] = Segment(0, 2, <<"a">>)
    /\ args.segments[2] = Segment(29807, 6, <<"b", ".">>)
    /\ call_result.value =
         <<"1", "\n", "0", "0", ":", "0", "0", ":", "0", "0", ",", "0", "0", "0",
           " ", "-", "-", ">", " ",
           "0", "0", ":", "0", "0", ":", "0", "0", ",", "2", "5", "0", "\n", "a", "\n", "\n",
           "2", "\n", "0", "1", ":", "0", "2", ":", "0", "5", ",", "8", "7", "5",
           " ", "-", "-", ">", " ",
           "0", "0", ":", "0", "0", ":", "0", "0", ",", "7", "5", "0", "\n", "b", ".", "\n">>

====
